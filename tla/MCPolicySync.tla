---------------------------- MODULE MCPolicySync ----------------------------
EXTENDS PolicySync

TwoFiles == <<"logstash.yml", "jvm.options">>
=============================================================================
