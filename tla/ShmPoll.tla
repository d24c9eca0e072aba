------------------------------ MODULE ShmPoll ------------------------------
(***************************************************************************)
(* 1201/shm: the channel without a doorbell.  The server prints what it    *)
(* finds in the segment once a second until that is "quit".                *)
(*                                                                         *)
(* pc["server"]: "shmget", "print", "test" or "remove".                    *)
(* pc["client"]: "shmget", "shmat", "line", "terminate" or "test".         *)
(***************************************************************************)
EXTENDS ShmSegments

kernel == <<key, mode, at>>
vars == <<pc, starts, mem, kernel>>

TypeOK == SegmentsTyped({"shmget", "shmat", "print", "test", "remove", "line", "terminate"})

Init == SegmentsInit

-----------------------------------------------------------------------------
StartServer == Start("server", "shmget") /\ UNCHANGED <<mem, key, mode>>

CreateSegment == /\ pc["server"] = "shmget"
                 /\ \/ Make("server", "all") /\ Goto("server", "print")
                    \/ key # 0 /\ Goto("server", "left") /\ UNCHANGED kernel
                 /\ UNCHANGED <<starts, mem>>

PrintLine == /\ pc["server"] = "print"
             /\ Goto("server", "test")
             /\ UNCHANGED <<starts, mem, kernel>>

TestQuit == /\ pc["server"] = "test"
            /\ Goto("server", IF saysQuit(at["server"]) THEN "remove" ELSE "print")
            /\ UNCHANGED <<starts, mem, kernel>>

RemoveSegment == /\ pc["server"] = "remove"
                 /\ Remove("server")
                 /\ Goto("server", "left")
                 /\ UNCHANGED starts

-----------------------------------------------------------------------------
StartClient == Start("client", "shmget") /\ UNCHANGED <<mem, key, mode>>

GetSegment == /\ pc["client"] = "shmget"
              /\ Make("client", "nobody") \/ Find("client")
              /\ Goto("client", "shmat")
              /\ UNCHANGED <<starts, mem>>

AttachSegment == /\ pc["client"] = "shmat"
                 /\ Attach("client")
                 /\ Goto("client", "line")
                 /\ UNCHANGED starts

TypeLine == /\ pc["client"] = "line"
            /\ Store("client")
            /\ Goto("client", "terminate")
            /\ UNCHANGED <<starts, kernel>>

EndLine == /\ pc["client"] = "terminate"
           /\ Terminate("client")
           /\ Goto("client", "test")
           /\ UNCHANGED <<starts, kernel>>

LeaveOnQuit == /\ pc["client"] = "test"
               /\ Goto("client", IF saysQuit(at["client"]) THEN "left" ELSE "line")
               /\ UNCHANGED <<starts, mem, kernel>>

-----------------------------------------------------------------------------
Kill(p) == /\ pc[p] \notin Ended
           /\ Goto(p, "killed")
           /\ UNCHANGED <<starts, mem, kernel>>

ServerStep == CreateSegment \/ PrintLine \/ TestQuit \/ RemoveSegment
ClientStep == GetSegment \/ AttachSegment \/ EndLine \/ LeaveOnQuit

Next == ServerStep \/ ClientStep \/ StartServer \/ StartClient \/ TypeLine \/ \E p \in Programs : Kill(p)
-----------------------------------------------------------------------------
\* A "quit" that is complete and stays in its segment ends the server.
QuitEnds == \A s \in Segments :
    (at["server"] = s /\ pc["server"] \in {"print", "test"} /\ saysQuit(s))
        ~> (pc["server"] \in Ended \/ at["server"] # s \/ ~saysQuit(s))
=============================================================================
