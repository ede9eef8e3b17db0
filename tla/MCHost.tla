------------------------------- MODULE MCHost -------------------------------
EXTENDS HostInstall

(* A state file that is loaded and replaced without a change in between shows
   nothing outside the installer's window. *)
NoIdleUpdates ==
    place \in {"idle", "binary", "done", "failed"} =>
        \A a \in Agents : svc[a].copy = NoState \/ svc[a].copy # state[a]

(* On a host with an agent: up to the first step that Recoverable and
   ServiceReturns except. *)
WithinPromise == risk => regVersion = Missing
=============================================================================
