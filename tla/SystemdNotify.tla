---------------------------- MODULE SystemdNotify ----------------------------
(***************************************************************************)
(* test_util::SystemdNotify: a test stands in for systemd and hears from   *)
(* the program it runs that the program is ready.  The object binds a      *)
(* datagram socket to a fixed path and leaves the path in the environment, *)
(* which the program inherits when it is forked.  Every test on the        *)
(* machine uses the same path; each unlinks what it finds there, before it *)
(* binds and after it closes.  A test has one object at a time, one        *)
(* program, and one thread; it may be killed anywhere, and run again.      *)
(***************************************************************************)
EXTENDS Naturals, Sequences

CONSTANTS Tests,    \* the tests of the machine
          MaxSent   \* bound: notifications

ASSUME NotifyAssumption ==
  /\ Tests \cap {"none", "stale", "foreign"} = {}
  /\ MaxSent \in Nat

VARIABLES
  path,     \* where the path leads: "none", a test's socket, "stale" or "foreign"
  place,    \* where each test is: see Places
  env,      \* NOTIFY_SOCKET of each test: "unset", "preset" (by its caller) or "ours"
  program,  \* NOTIFY_SOCKET of the program of each test, or "none" if none runs
  survivor, \* a program outlives its test, with NOTIFY_SOCKET set to the path
  queue,    \* what the socket of each test has received
  sent,     \* notifications sent
  informed, \* history: the programs that were started since there was an object
  meant,    \* history: what such a program sent while the object's socket was bound
  got,      \* history: what GetNotification returned
  crowded   \* history: the tests that have not been alone on the machine

testVars == <<place, env, program>>
historyVars == <<informed, meant, got>>
vars == <<path, testVars, survivor, queue, sent, historyVars, crowded>>

(* No object; the constructor after unlink and after bind; the object, and *)
(* in GetNotification; the destructor after close.  A constructor that     *)
(* throws leaves its socket open, at the path if it was bound.             *)
Thrown == {"no_socket", "not_bound", "no_env"}

Places == {"none", "unlinked", "bound", "ready", "polling", "closed"} \cup Thrown

Notification == [from : Tests \cup {"survivor"}, text : {"fits", "long", "cut"}]

TypeOK ==
  /\ path \in Tests \cup {"none", "stale", "foreign"}
  /\ place \in [Tests -> Places]
  /\ env \in [Tests -> {"unset", "preset", "ours"}]
  /\ program \in [Tests -> {"none", "unset", "preset", "ours"}]
  /\ survivor \in BOOLEAN
  /\ queue \in [Tests -> Seq(Notification)]
  /\ sent \in 0..MaxSent
  /\ informed \subseteq Tests /\ crowded \subseteq Tests
  /\ meant \in [Tests -> Seq(Notification)] /\ got \in [Tests -> Seq(Notification)]
  /\ path \in Tests => place[path] \in {"bound", "ready", "polling", "closed", "no_env"}

(* A socket may have been left at the path; it may be that of another      *)
(* user, which /tmp does not let us unlink.                                *)
Init ==
  /\ path \in {"none", "stale", "foreign"}
  /\ place = [t \in Tests |-> "none"]
  /\ env \in [Tests -> {"unset", "preset"}]
  /\ program = [t \in Tests |-> "none"]
  /\ survivor = FALSE
  /\ queue = [t \in Tests |-> <<>>]
  /\ sent = 0
  /\ informed = {} /\ crowded = {}
  /\ meant = [t \in Tests |-> <<>>] /\ got = [t \in Tests |-> <<>>]
-----------------------------------------------------------------------------
MovesTo(t, p) == place' = [place EXCEPT ![t] = p]

(* mutant: what is at the path is left there *)
UnlinkedByOwner == path

(* unlink fails without a word, and on what is another user's. *)
Unlinked == IF path = "foreign" THEN path ELSE "none"

(* The constructor: unlink, and socket, which may fail.  A test goes on    *)
(* after a constructor that threw.                                         *)
Unlink(t) ==
  /\ place[t] \in {"none"} \cup Thrown
  /\ path' = Unlinked
  /\ MovesTo(t, "unlinked") \/ MovesTo(t, "no_socket")
  /\ UNCHANGED <<env, program, survivor, queue, sent, historyVars>>

(* Nothing received, nothing told: the socket of a test is closed. *)
Forgotten(t) ==
  /\ queue' = [queue EXCEPT ![t] = <<>>]
  /\ meant' = [meant EXCEPT ![t] = <<>>] /\ got' = [got EXCEPT ![t] = <<>>]

(* bind takes a path that is free, and no other. *)
Bind(t) ==
  /\ place[t] = "unlinked"
  /\ \/ path = "none" /\ path' = t /\ MovesTo(t, "bound")
     \/ path # "none" /\ UNCHANGED path /\ MovesTo(t, "not_bound")
  /\ UNCHANGED <<env, program, survivor, queue, sent, historyVars>>

(* mutant: the variable is not set *)
EnvKept(t) == env[t]

(* What setenv leaves, which does not overwrite. *)
EnvAfterSet(t) == IF env[t] = "unset" THEN "ours" ELSE env[t]

Setenv(t) ==
  /\ place[t] = "bound"
  /\ env' = [env EXCEPT ![t] = EnvAfterSet(t)]
  /\ MovesTo(t, "ready")
  /\ UNCHANGED <<path, program, survivor, queue, sent, historyVars>>

(* setenv fails: no destructor closes the socket or unlinks the path, and  *)
(* nobody reads what arrives there.                                        *)
SetenvThrows(t) ==
  /\ place[t] = "bound" /\ env[t] = "unset"
  /\ MovesTo(t, "no_env")
  /\ Forgotten(t)
  /\ UNCHANGED <<path, env, program, survivor, sent, informed>>

(* The destructor: close, *)
Close(t) ==
  /\ place[t] = "ready"
  /\ MovesTo(t, "closed")
  /\ Forgotten(t)
  /\ UNCHANGED <<path, env, program, survivor, sent, informed>>

(* and unlink, whatever is at the path by then. *)
UnlinkAgain(t) ==
  /\ place[t] = "closed"
  /\ path' = Unlinked
  /\ MovesTo(t, "none")
  /\ UNCHANGED <<env, program, survivor, queue, sent, historyVars>>
-----------------------------------------------------------------------------
GetNotification(t) ==
  /\ place[t] = "ready"
  /\ MovesTo(t, "polling")
  /\ UNCHANGED <<path, env, program, survivor, queue, sent, historyVars>>

(* poll comes to its timeout, or fails: an empty answer (which an empty    *)
(* datagram is too), or an exception.                                      *)
TimesOut(t) ==
  /\ place[t] = "polling" /\ queue[t] = <<>>
  /\ MovesTo(t, "ready")
  /\ UNCHANGED <<path, env, program, survivor, queue, sent, historyVars>>

(* recv takes the first datagram, and 64 bytes of it. *)
Receives(t) ==
  /\ place[t] = "polling" /\ queue[t] # <<>>
  /\ LET first == Head(queue[t]) IN
       got' = [got EXCEPT ![t] =
                 Append(@, IF first.text = "long" THEN [first EXCEPT !.text = "cut"] ELSE first)]
  /\ queue' = [queue EXCEPT ![t] = Tail(@)]
  /\ MovesTo(t, "ready")
  /\ UNCHANGED <<path, env, program, survivor, sent, informed, meant>>
-----------------------------------------------------------------------------
(* The test runs its program (as a Process), *)
Start(t) ==
  /\ place[t] \in {"none", "ready"} \cup Thrown
  /\ program[t] = "none"
  /\ program' = [program EXCEPT ![t] = env[t]]
  /\ informed' = IF env[t] = "ours" \/ place[t] = "ready" THEN informed \cup {t} ELSE informed \ {t}
  /\ UNCHANGED <<path, place, env, survivor, queue, sent, meant, got>>

(* which ends, or is ended. *)
Ends(t) ==
  /\ program[t] # "none"
  /\ program' = [program EXCEPT ![t] = "none"]
  /\ UNCHANGED <<path, place, env, survivor, queue, sent, historyVars>>

(* A datagram for the path reaches the socket the path leads to, if open;  *)
(* one that nobody will read is left out.                                  *)
Delivered(d) ==
  queue' = IF path \in Tests /\ place[path] \in {"bound", "ready", "polling"}
           THEN [queue EXCEPT ![path] = Append(@, d)] ELSE queue

ProgramSends(t, text) ==
  LET d == [from |-> t, text |-> text] IN
    /\ program[t] # "none" /\ sent < MaxSent
    /\ sent' = sent + 1
    /\ IF program[t] = "ours" THEN Delivered(d) ELSE UNCHANGED queue
    /\ meant' = IF t \in informed /\ place[t] \in {"bound", "ready", "polling"}
                THEN [meant EXCEPT ![t] = Append(@, d)] ELSE meant
    /\ UNCHANGED <<path, testVars, survivor, informed, got>>

SurvivorSends(text) ==
  /\ survivor /\ sent < MaxSent
  /\ sent' = sent + 1
  /\ Delivered([from |-> "survivor", text |-> text])
  /\ UNCHANGED <<path, testVars, survivor, historyVars>>

SurvivorEnds ==
  /\ survivor /\ survivor' = FALSE
  /\ UNCHANGED <<path, testVars, queue, sent, historyVars>>

(* The test is killed: its socket is closed and stays at the path.  Its    *)
(* program ends with it, if it has called prctl (see Process).             *)
Dies(t) ==
  /\ place[t] # "none" \/ program[t] # "none"
  /\ path' = IF path = t THEN "stale" ELSE path
  /\ MovesTo(t, "none")
  /\ env' \in {[env EXCEPT ![t] = e] : e \in {"unset", "preset"}}
  /\ program' = [program EXCEPT ![t] = "none"]
  /\ survivor' \in {survivor, survivor \/ program[t] = "ours"}
  /\ Forgotten(t)
  /\ UNCHANGED <<sent, informed>>
-----------------------------------------------------------------------------
Busy(t) == place[t] # "none" \/ program[t] = "ours"

(* A test is crowded from the first moment it shares the machine, until it *)
(* has neither an object nor a program.                                    *)
Recorded ==
  crowded' = {t \in Tests :
    Busy(t)' /\ (t \in crowded \/ survivor' \/ \E u \in Tests \ {t} : Busy(u)')}

TestStep(t) ==
  \/ Unlink(t) \/ Bind(t) \/ Setenv(t) \/ SetenvThrows(t) \/ Close(t) \/ UnlinkAgain(t)
  \/ GetNotification(t) \/ TimesOut(t) \/ Receives(t)
  \/ Start(t) \/ Ends(t) \/ Dies(t)

Next ==
  /\ \/ \E t \in Tests : TestStep(t)
     \/ \E text \in {"fits", "long"} :
          SurvivorSends(text) \/ \E t \in Tests : ProgramSends(t, text)
     \/ SurvivorEnds
  /\ Recorded

Spec == Init /\ [][Next]_vars
-----------------------------------------------------------------------------
(* What a program sends while its test listens is what the test is given,  *)
(* in order and with nothing in between, and what is still to come: unless *)
(* the test shared the machine, or its caller had set NOTIFY_SOCKET.  What *)
(* does not fit 64 bytes is cut.                                           *)
NothingLost ==
  \A t \in Tests \ crowded :
    place[t] \in {"ready", "polling"} /\ env[t] # "preset" =>
      LET all == got[t] \o queue[t] IN
        /\ Len(all) = Len(meant[t])
        /\ \A i \in DOMAIN all :
             all[i].from = t /\ (all[i] = meant[t][i] \/ meant[t][i].text = "long")

(* The constructor finds the path free, whatever an earlier test left      *)
(* there: unless the machine was shared, or the path is another user's.    *)
BindNeedsPath ==
  \A t \in Tests \ crowded : place[t] = "not_bound" => path = "foreign"
=============================================================================
