----------------------------- MODULE AckedCalls -----------------------------
(***************************************************************************)
(* What an acknowledged call of mqtt_util::Client promises its caller.     *)
(* Subscribe, Unsubscribe, Unretain and PublishMessage hand one packet to  *)
(* the library and block until the packet is acknowledged.  Whatever the   *)
(* threads, the loop thread and the message identifiers do in between, a   *)
(* caller should see nothing but this: a call returns normally only after  *)
(* its own packet was acknowledged, and it throws "not received in time"   *)
(* only while its own packet is not.                                       *)
(***************************************************************************)
CONSTANT Threads

VARIABLES call,   \* what each thread's current call is waiting for
          ended   \* how each thread's last call ended

Calls == {"idle", "issued", "acknowledged"}
Endings == {"none", "ok", "timeout", "refused"}

Init == /\ call = [th \in Threads |-> "idle"]
        /\ ended = [th \in Threads |-> "none"]

(* The library accepted the packet of a new call. *)
Issue(th) == /\ call[th] = "idle"
             /\ call' = [call EXCEPT ![th] = "issued"]
             /\ UNCHANGED ended

Acknowledge(th) == /\ call[th] = "issued"
                   /\ call' = [call EXCEPT ![th] = "acknowledged"]
                   /\ UNCHANGED ended

Succeed(th) == /\ call[th] = "acknowledged"
               /\ call' = [call EXCEPT ![th] = "idle"]
               /\ ended' = [ended EXCEPT ![th] = "ok"]

GiveUp(th) == /\ call[th] = "issued"
              /\ call' = [call EXCEPT ![th] = "idle"]
              /\ ended' = [ended EXCEPT ![th] = "timeout"]

(* The library refused the packet of a new call. *)
Refuse(th) == /\ call[th] = "idle"
              /\ ended' = [ended EXCEPT ![th] = "refused"]
              /\ UNCHANGED call

Next == \E th \in Threads : \/ Issue(th) \/ Acknowledge(th)
                            \/ Succeed(th) \/ GiveUp(th) \/ Refuse(th)

vars == <<call, ended>>

Spec == Init /\ [][Next]_vars
=============================================================================
