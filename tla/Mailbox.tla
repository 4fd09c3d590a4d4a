------------------------------ MODULE Mailbox ------------------------------
(***************************************************************************)
(* What mqtt_util::BackendProxy and mqtt_util::UdsInterface promise the    *)
(* test that uses them: one mailbox with selective receive.  A call asks   *)
(* for a message of one content, or of any, and is answered with the       *)
(* oldest pending message that matches, or comes back empty-handed.  No    *)
(* message is lost, repeated or reordered within its content, in whatever  *)
(* order contents are asked for; only a message that is no use to the      *)
(* receiver (undecodable, or addressed to somebody else) is dropped, and   *)
(* it costs the call that met it its answer.                               *)
(***************************************************************************)
EXTENDS Naturals, Sequences, SequencesExt

CONSTANTS Contents,    \* content ids
          Undecodable, \* the content of a message of no use to the receiver
          AnyContent   \* the request for a message of any content

VARIABLES pending, \* messages not yet answered with, in order of arrival
          request  \* what the current call asks for, "none" between calls, or
                   \* "closed" when nobody has the mailbox for itself

Requests == Contents \cup {AnyContent}
AllContents == Contents \cup {Undecodable}

Matches(m, r) == m.content = r \/ (r = AnyContent /\ m.content # Undecodable)

Init == pending = <<>> /\ request = "closed"

Open == /\ request = "closed"
        /\ request' = "none"
        /\ \A i \in 1..Len(pending') : pending'[i].content \in AllContents

Close == /\ request # "closed"
         /\ request' = "closed"
         /\ pending' = <<>>

Arrive == /\ request # "closed"
          /\ pending' # <<>>
          /\ Front(pending') = pending
          /\ Last(pending').content \in AllContents
          /\ UNCHANGED request

Ask == /\ request = "none"
       /\ request' \in Requests
       /\ UNCHANGED pending

Answer == /\ request \in Requests
          /\ \E i \in 1..Len(pending) :
               /\ Matches(pending[i], request)
               /\ \A j \in 1..(i - 1) : ~Matches(pending[j], request)
               /\ pending' = RemoveAt(pending, i)
          /\ request' = "none"

Refuse == /\ request \in Requests
          /\ request' = "none"
          /\ UNCHANGED pending

Discard == /\ request \in Requests
           /\ \E i \in 1..Len(pending) :
                /\ pending[i].content = Undecodable
                /\ pending' = RemoveAt(pending, i)
           /\ request' = "none"

Next == Open \/ Close \/ Arrive \/ Ask \/ Answer \/ Refuse \/ Discard

Spec == Init /\ [][Next]_<<pending, request>>
=============================================================================
