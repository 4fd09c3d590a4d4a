------------------------------ MODULE WatchFile ------------------------------
(***************************************************************************)
(* test_util::WatchFile: wait until a file has been changed, with an       *)
(* InotifyWrapper on its directory and the loop of WaitFor.  The kernel    *)
(* queues an event for everything that happens to a file of the directory; *)
(* an event like the last one in the queue is dropped.  Events that come   *)
(* while the queue has its system-wide limit (16384) are out of the model. *)
(***************************************************************************)
EXTENDS Naturals, Sequences, FiniteSets, Functions

CONSTANTS
  Timeout,    \* milliseconds
  Capacity,   \* bound: events that one read returns
  MaxEvents,  \* bound: events in the directory
  MaxWatches  \* bound: calls of WatchFile

ASSUME WatchAssumption == Timeout \in Nat /\ {Capacity, MaxEvents, MaxWatches} \subseteq Nat \ {0}

VARIABLES
  exists,        \* the file
  session,       \* a writer of the file: "none", "clean", "changed"
  queue,         \* of the inotify descriptor
  watch,         \* the descriptor is open and has its watch
  pc,            \* "idle", "subroutine", "poll", "loop"
  result,        \* of the last call: "none", "true", "false", "threw"
  combined_mask, \* the events of the file read so far
  clock,         \* milliseconds since WaitFor began
  watches,       \* calls of WatchFile
  happened,      \* history: events of the file since the call
  events,        \* events in the directory
  blurred        \* history: the file was open at the call, or closed unchanged

watchVars == <<exists, session, queue, watch, pc, result, combined_mask, clock,
               watches, happened, events, blurred>>

Changes == {"IN_CREATE", "IN_MODIFY", "IN_MOVE", "IN_DELETE"}
Completions == {"IN_MOVE", "IN_DELETE", "IN_CLOSE_WRITE"}
FileEvents == Changes \cup Completions

WatchTypeOK ==
  /\ {exists, watch, blurred} \subseteq BOOLEAN
  /\ session \in {"none", "clean", "changed"}
  /\ queue \in Seq(FileEvents \cup {"neighbour"}) /\ happened \in Seq(FileEvents)
  /\ pc \in {"idle", "subroutine", "poll", "loop"}
  /\ result \in {"none", "true", "false", "threw"}
  /\ combined_mask \subseteq FileEvents
  /\ clock \in 0..Timeout + 1 /\ watches \in 0..MaxWatches /\ events \in 0..MaxEvents + 1
  /\ watch <=> pc # "idle"

WatchInit ==
  /\ exists \in BOOLEAN
  /\ session = "none"
  /\ queue = <<>> /\ watch = FALSE
  /\ pc = "idle" /\ result = "none" /\ combined_mask = {} /\ clock = 0
  /\ watches = 0 /\ happened = <<>> /\ events = 0 /\ blurred = FALSE
-----------------------------------------------------------------------------
(* What the file system does.  An event is queued for a descriptor that    *)
(* watches.                                                                *)
Queued(event) ==
  queue' = IF watch /\ (queue = <<>> \/ queue[Len(queue)] # event)
             THEN Append(queue, event) ELSE queue

Emit(event) ==
  /\ events' = events + 1
  /\ Queued(event)
  /\ happened' = IF pc = "idle" THEN happened ELSE Append(happened, event)
  /\ UNCHANGED <<watch, pc, result, combined_mask, clock, watches>>

Open ==
  /\ session = "none" /\ events < MaxEvents
  /\ exists' = TRUE
  /\ IF exists THEN /\ session' = "clean"
                    /\ UNCHANGED <<queue, watch, pc, result, combined_mask, clock,
                                   watches, happened, events>>
               ELSE session' = "changed" /\ Emit("IN_CREATE")
  /\ UNCHANGED blurred

Write ==
  /\ session # "none" /\ events < MaxEvents
  /\ session' = "changed"
  /\ Emit("IN_MODIFY")
  /\ UNCHANGED <<exists, blurred>>

Close ==
  /\ session # "none"
  /\ session' = "none"
  /\ blurred' = (blurred \/ session = "clean")
  /\ Emit("IN_CLOSE_WRITE")
  /\ UNCHANGED exists

(* The file gets its name, or loses it. *)
Move ==
  /\ events < MaxEvents
  /\ session' = "none"
  /\ exists' \in {b \in BOOLEAN : exists \/ b}
  /\ Emit("IN_MOVE")
  /\ UNCHANGED blurred

Delete ==
  /\ exists /\ events < MaxEvents
  /\ session' = "none"
  /\ exists' = FALSE
  /\ Emit("IN_DELETE")
  /\ UNCHANGED blurred

(* Something happens to another file of the directory. *)
Neighbour ==
  /\ events < MaxEvents
  /\ events' = events + 1
  /\ Queued("neighbour")
  /\ UNCHANGED <<exists, session, watch, pc, result, combined_mask, clock, watches,
                 happened, blurred>>
-----------------------------------------------------------------------------
(* The constructor of InotifyWrapper.  When it throws there is no call. *)
Call ==
  /\ pc = "idle" /\ watches < MaxWatches
  /\ pc' = "subroutine"
  /\ watch' = TRUE /\ queue' = <<>>
  /\ result' = "none"
  /\ watches' = watches + 1
  /\ happened' = <<>>
  /\ blurred' = (session # "none")
  /\ UNCHANGED <<exists, session, combined_mask, clock, events>>

(* The subroutine is over, WaitFor begins. *)
StartWaiting ==
  /\ pc = "subroutine"
  /\ pc' = "poll"
  /\ combined_mask' = {} /\ clock' = 0
  /\ UNCHANGED <<exists, session, queue, watch, result, watches, happened, events, blurred>>

Tick ==
  /\ pc \in {"poll", "loop"} /\ clock <= Timeout
  /\ clock' = clock + 1
  /\ UNCHANGED <<exists, session, queue, watch, pc, result, combined_mask, watches,
                 happened, events, blurred>>

(* The call returns and closes the descriptor. *)
Returns(value) ==
  /\ result' = value
  /\ pc' = "idle"
  /\ watch' = FALSE /\ queue' = <<>>

(* An exception: poll or read fails (a signal interrupts poll), or the     *)
(* subroutine throws.                                                      *)
Throws ==
  /\ pc \in {"subroutine", "poll"}
  /\ Returns("threw")
  /\ UNCHANGED <<exists, session, combined_mask, clock, watches, happened, events, blurred>>

(* poll times out: ReadData returns nothing. *)
PollTimesOut ==
  /\ pc = "poll" /\ queue = <<>> /\ clock >= Timeout
  /\ pc' = "loop"
  /\ UNCHANGED <<exists, session, queue, watch, result, combined_mask, clock, watches,
                 happened, events, blurred>>

(* mutant: the names are not compared *)
OfAny(n) == {queue[i] : i \in 1..n}

(* The events of the file among the first n of the queue: ReadData,        *)
(* GetEventList and the comparison of the name.                            *)
OfFile(n) == {queue[i] : i \in {j \in 1..n : queue[j] # "neighbour"}}

(* mutant: the mask starts anew with each read *)
MaskOfRead(n) == OfFile(n)

(* combined_mask after a read of n events *)
Combined(n) == combined_mask \cup OfFile(n)

(* mutant: a change will do *)
AnyChange(mask) == TRUE

Completes(mask) == mask \cap Completions # {}

(* One read takes the events that fit in the buffer, at least one; how     *)
(* many depends on the lengths of the names.                               *)
Read ==
  /\ pc = "poll"
  /\ \E n \in DOMAIN queue \cap (1..Capacity) :
       LET mask == Combined(n)
           completed == Completes(mask)
           changed == mask \cap Changes # {}
       IN IF completed /\ changed
            THEN Returns("true") /\ combined_mask' = mask
            ELSE /\ pc' = "loop"
                 /\ queue' = SubSeq(queue, n + 1, Len(queue))
                 /\ combined_mask' = IF completed THEN {} ELSE mask
                 /\ UNCHANGED <<result, watch>>
  /\ UNCHANGED <<exists, session, clock, watches, happened, events, blurred>>

(* mutant: the remaining time is not computed anew *)
Always == TRUE

TimeRemains == clock <= Timeout

(* WaitFor: another round while time remains. *)
Loop ==
  /\ pc = "loop"
  /\ IF TimeRemains THEN pc' = "poll" /\ UNCHANGED <<queue, watch, result>>
                    ELSE Returns("false")
  /\ UNCHANGED <<exists, session, combined_mask, clock, watches, happened, events, blurred>>
=============================================================================
