------------------------------ MODULE MCProve ------------------------------
(* Two requests, and the jail ids fresh_jail_id gives their guests. *)
EXTENDS Prove

CONSTANTS r1, r2, p1, p2

MCJail == {"mgr-1", "insp-1", "mgr-2", "insp-2"}
MCJailOf == <<r1, "main">> :> "mgr-1" @@ <<r1, "insp">> :> "insp-1"
         @@ <<r2, "main">> :> "mgr-2" @@ <<r2, "insp">> :> "insp-2"

\* Two threads of one serve process, or two processes.
OneProc == r1 :> p1 @@ r2 :> p1
TwoProcs == r1 :> p1 @@ r2 :> p2

Setting(procs, may) == [home |-> procs, faults |-> may]

\* Two threads of one manager: nothing fails; the host and the readers of the
\* chain do.  Two managers: kills and appends fail; one of them dies.
Mixed == {Setting(OneProc, {}), Setting(OneProc, {"read", "host"}),
          Setting(TwoProcs, {"append", "kill"}), Setting(TwoProcs, {"read", "crash"})}
Sound == {Setting(OneProc, {})}
HostFails == {Setting(TwoProcs, {"host"})}
=============================================================================
