------------------------- MODULE SystemdNotifyProofs -------------------------
(***************************************************************************)
(* What holds of SystemdNotify for any number of tests and notifications:  *)
(* its types, that a test alone on the machine finds the path free, and    *)
(* that it is given what its program sends.                                *)
(***************************************************************************)
EXTENDS SystemdNotify, SequenceTheorems, TLAPS

Open == {"bound", "ready", "polling"}

(* A test that is not crowded is the only one at work. *)
Alone ==
  \A t \in Tests \ crowded :
    Busy(t) => ~survivor /\ \A u \in Tests \ {t} : ~Busy(u)

(* It finds the path as it left it. *)
PathKept ==
  \A t \in Tests \ crowded :
    /\ place[t] = "unlinked" => path \in {"none", "foreign"}
    /\ place[t] = "not_bound" => path = "foreign"
    /\ place[t] \in Open => path = t

(* Without a socket there is nothing a test was sent. *)
NothingKept ==
  \A t \in Tests :
    place[t] \notin Open => queue[t] = <<>> /\ got[t] = <<>> /\ meant[t] = <<>>

(* NOTIFY_SOCKET is set while there is an object, and a program has it     *)
(* exactly when it was started since the first one.                        *)
Inherited ==
  \A t \in Tests :
    /\ place[t] \in {"ready", "polling"} => env[t] # "unset"
    /\ program[t] # "none" /\ env[t] # "preset" =>
         (program[t] = "ours" <=> t \in informed)

(* What a test got came from what was meant for it, element by element,    *)
(* and its queue holds the rest.                                           *)
Fits(t, d, m) == d.from = t /\ (d = m \/ m.text = "long")

HeardBy(t, g, q, m) ==
  /\ Len(g) + Len(q) = Len(m)
  /\ \A i \in 1..Len(g) : Fits(t, g[i], m[i])
  /\ \A i \in 1..Len(q) : Fits(t, q[i], m[Len(g) + i])

Heard ==
  \A t \in Tests \ crowded :
    place[t] \in Open /\ env[t] # "preset" => HeardBy(t, got[t], queue[t], meant[t])

IInv == TypeOK /\ Alone /\ PathKept /\ NothingKept /\ Inherited /\ Heard
-----------------------------------------------------------------------------
(* The types of the places and of the path, which most actions change. *)
Placed ==
  /\ path \in Tests \cup {"none", "stale", "foreign"}
  /\ place \in [Tests -> Places]
  /\ path \in Tests => place[path] \in Open \cup {"closed", "no_env"}

(* A step that leaves the environment and the program alone keeps the      *)
(* types.                                                                  *)
LEMMA TypeFrame ==
  ASSUME TypeOK, Placed', UNCHANGED <<env, program, survivor, sent, informed>>,
         crowded' \subseteq Tests,
         queue' \in [Tests -> Seq(Notification)],
         meant' \in [Tests -> Seq(Notification)],
         got' \in [Tests -> Seq(Notification)]
  PROVE  TypeOK'
  BY DEF TypeOK, Placed, Open

(* They are part of the type invariant. *)
LEMMA PlacedFrame == TypeOK => Placed
  BY DEF TypeOK, Placed, Open

(* A test moves on: its own socket is the one a path may lead to. *)
LEMMA Moves ==
  ASSUME TypeOK, NEW t \in Tests, NEW p \in Places, MovesTo(t, p),
         \/ path' \in {"none", "stale", "foreign"}
         \/ path' = path /\ (path = t => p \in Open \cup {"closed", "no_env"})
         \/ path' = t /\ p \in Open
  PROVE  Placed'
  BY NotifyAssumption DEF TypeOK, Placed, Open, MovesTo

(* The path after unlink leads nowhere, or where we may not look. *)
LEMMA UnlinkedPath ==
  ASSUME TypeOK PROVE Unlinked \in {"none", "foreign"}
  BY DEF Unlinked

(* One notification more is of the type. *)
LEMMA Notified ==
  ASSUME NEW f \in [Tests -> Seq(Notification)], NEW t \in Tests, NEW d \in Notification
  PROVE  [f EXCEPT ![t] = Append(@, d)] \in [Tests -> Seq(Notification)]
  OBVIOUS

(* The initial states have their types. *)
LEMMA Initially == Init => TypeOK
<1> SUFFICES ASSUME Init PROVE TypeOK
  OBVIOUS
<1>1. [t \in Tests |-> <<>>] \in [Tests -> Seq(Notification)]
  BY EmptySeq
<1>2. env \in [Tests -> {"unset", "preset", "ours"}]
  BY DEF Init
<1>3. path \notin Tests
  BY NotifyAssumption DEF Init
<1>4. /\ queue \in [Tests -> Seq(Notification)]
      /\ meant \in [Tests -> Seq(Notification)]
      /\ got \in [Tests -> Seq(Notification)]
  BY <1>1 DEF Init
<1>5. /\ place \in [Tests -> Places]
      /\ program \in [Tests -> {"none", "unset", "preset", "ours"}]
  BY DEF Init, Places
<1>6. sent \in 0..MaxSent /\ informed \subseteq Tests /\ crowded \subseteq Tests
  BY NotifyAssumption DEF Init
<1>7. survivor \in BOOLEAN /\ path \in Tests \cup {"none", "stale", "foreign"}
  BY DEF Init
<1> QED BY <1>2, <1>3, <1>4, <1>5, <1>6, <1>7 DEF TypeOK

(* Every variable keeps its type, and a path only leads to an open socket, *)
(* or to one that its test is about to unlink.                             *)
THEOREM Typing == Spec => []TypeOK
<1>1. Init => TypeOK
  BY Initially
<1>2. TypeOK /\ [Next]_vars => TypeOK'
  <2> SUFFICES ASSUME TypeOK, [Next]_vars PROVE TypeOK'
    OBVIOUS
  <2>0. CASE UNCHANGED vars
    BY <2>0 DEF vars, testVars, historyVars, TypeOK
  <2> SUFFICES ASSUME Next PROVE TypeOK'
    BY <2>0
  <2>1. /\ crowded' \subseteq Tests
        /\ queue \in [Tests -> Seq(Notification)]
        /\ meant \in [Tests -> Seq(Notification)]
        /\ got \in [Tests -> Seq(Notification)]
    BY DEF Next, Recorded, TypeOK
  <2>2. ASSUME NEW t \in Tests, TestStep(t) PROVE TypeOK'
    <3>1. CASE Unlink(t) \/ UnlinkAgain(t)
      <4>1. PICK p \in {"unlinked", "no_socket", "none"} : MovesTo(t, p)
        BY <3>1 DEF Unlink, UnlinkAgain
      <4>2. Placed'
        BY <3>1, <4>1, Moves, UnlinkedPath DEF Unlink, UnlinkAgain, Places, Thrown
      <4> QED BY <2>1, <3>1, <4>2, TypeFrame DEF Unlink, UnlinkAgain, historyVars
    <3>2. CASE Bind(t)
      <4>1. path # t
        BY <3>2, NotifyAssumption DEF TypeOK, Bind
      <4>2. {"bound", "not_bound"} \subseteq Places /\ "bound" \in Open
        BY DEF Places, Thrown, Open
      <4>3. \E p \in {"bound", "not_bound"} :
              MovesTo(t, p) /\ (path' = path \/ (path' = t /\ p \in Open))
        BY <3>2, <4>2 DEF Bind
      <4>4. Placed'
        BY <4>1, <4>2, <4>3, Moves
      <4> QED BY <2>1, <3>2, <4>4, TypeFrame DEF Bind, historyVars
    <3>3. CASE Setenv(t)
      <4>1. Placed'
        BY <3>3, Moves DEF Setenv, Places, Open
      <4>2. env' \in [Tests -> {"unset", "preset", "ours"}]
        BY <3>3 DEF Setenv, EnvAfterSet, TypeOK
      <4> QED BY <2>1, <3>3, <4>1, <4>2 DEF Setenv, historyVars, TypeOK, Placed, Open
    <3>4. CASE Close(t) \/ SetenvThrows(t)
      <4>1. PICK p \in {"closed", "no_env"} : MovesTo(t, p) /\ path' = path /\ Forgotten(t)
        BY <3>4 DEF Close, SetenvThrows
      <4>2. p \in Places /\ p \in Open \cup {"closed", "no_env"}
        BY DEF Places, Thrown
      <4>3. Placed'
        BY <4>1, <4>2, Moves
      <4>4. /\ queue' \in [Tests -> Seq(Notification)]
            /\ meant' \in [Tests -> Seq(Notification)]
            /\ got' \in [Tests -> Seq(Notification)]
        BY <2>1, <4>1, EmptySeq DEF Forgotten
      <4> QED BY <2>1, <3>4, <4>3, <4>4, TypeFrame DEF Close, SetenvThrows
    <3>5. CASE GetNotification(t) \/ TimesOut(t)
      <4>1. Placed'
        BY <3>5, Moves DEF GetNotification, TimesOut, Places, Open
      <4> QED BY <2>1, <3>5, <4>1, TypeFrame
              DEF GetNotification, TimesOut, historyVars
    <3>6. CASE Receives(t)
      <4>1. Placed'
        BY <3>6, Moves DEF Receives, Places, Open
      <4>2. /\ queue[t] \in Seq(Notification)
            /\ Head(queue[t]) \in Notification /\ Tail(queue[t]) \in Seq(Notification)
        BY <2>1, <3>6, HeadTailProperties DEF Receives
      <4>3. [Head(queue[t]) EXCEPT !.text = "cut"] \in Notification
        BY <4>2 DEF Notification
      <4>4. queue' \in [Tests -> Seq(Notification)]
        BY <2>1, <3>6, <4>2 DEF Receives
      <4>5. got' \in [Tests -> Seq(Notification)]
        BY <2>1, <3>6, <4>2, <4>3, Notified DEF Receives
      <4> QED BY <2>1, <3>6, <4>1, <4>4, <4>5, TypeFrame DEF Receives
    <3>7. CASE Start(t) \/ Ends(t)
      <4>1. /\ program' \in [Tests -> {"none", "unset", "preset", "ours"}]
            /\ informed' \subseteq Tests
        BY <3>7 DEF Start, Ends, historyVars, TypeOK
      <4> QED BY <2>1, <3>7, <4>1 DEF Start, Ends, historyVars, TypeOK
    <3>8. CASE Dies(t)
      <4>1. Placed'
        BY <3>8, Moves DEF Dies, Places
      <4>2. /\ queue' \in [Tests -> Seq(Notification)]
            /\ meant' \in [Tests -> Seq(Notification)]
            /\ got' \in [Tests -> Seq(Notification)]
        BY <2>1, <3>8, EmptySeq DEF Dies, Forgotten
      <4>3. /\ env' \in [Tests -> {"unset", "preset", "ours"}]
            /\ program' \in [Tests -> {"none", "unset", "preset", "ours"}]
            /\ survivor' \in BOOLEAN
        BY <3>8 DEF Dies, TypeOK
      <4> QED BY <2>1, <3>8, <4>1, <4>2, <4>3 DEF Dies, TypeOK, Placed, Open
    <3> QED BY <2>2, <3>1, <3>2, <3>3, <3>4, <3>5, <3>6, <3>7, <3>8 DEF TestStep
  <2>3. ASSUME NEW d \in Notification, Delivered(d)
        PROVE  queue' \in [Tests -> Seq(Notification)]
    BY <2>1, <2>3, Notified DEF Delivered
  <2>4. ASSUME NEW text \in {"fits", "long"},
               SurvivorSends(text) \/ \E t \in Tests : ProgramSends(t, text)
        PROVE  TypeOK'
    <3>1. sent' \in 0..MaxSent
      <4>1. sent < MaxSent /\ sent' = sent + 1
        BY <2>4 DEF SurvivorSends, ProgramSends
      <4> QED BY <4>1, NotifyAssumption DEF TypeOK
    <3>2. UNCHANGED <<path, testVars, survivor, informed, got>>
      BY <2>4 DEF SurvivorSends, ProgramSends, historyVars
    <3>3. /\ queue' \in [Tests -> Seq(Notification)]
          /\ meant' \in [Tests -> Seq(Notification)]
      <4>1. CASE SurvivorSends(text)
        BY <2>1, <2>3, <4>1 DEF SurvivorSends, historyVars, Notification
      <4>2. ASSUME NEW t \in Tests, ProgramSends(t, text)
            PROVE  /\ queue' \in [Tests -> Seq(Notification)]
                   /\ meant' \in [Tests -> Seq(Notification)]
        <5>1. [from |-> t, text |-> text] \in Notification
          BY DEF Notification
        <5>2. queue' \in [Tests -> Seq(Notification)]
          BY <2>1, <2>3, <4>2, <5>1 DEF ProgramSends
        <5>3. meant' \in [Tests -> Seq(Notification)]
          BY <2>1, <4>2, <5>1, Notified DEF ProgramSends
        <5> QED BY <5>2, <5>3
      <4> QED BY <2>4, <4>1, <4>2
    <3> QED BY <2>1, <3>1, <3>2, <3>3 DEF TypeOK, testVars
  <2>5. CASE SurvivorEnds
    BY <2>1, <2>5 DEF SurvivorEnds, testVars, historyVars, TypeOK
  <2> QED BY <2>2, <2>4, <2>5 DEF Next
<1> QED BY <1>1, <1>2, PTL DEF Spec
-----------------------------------------------------------------------------
(* Nothing was heard of what was not sent. *)
LEMMA HeardNothing == ASSUME NEW t PROVE HeardBy(t, <<>>, <<>>, <<>>)
  BY EmptySeq DEF HeardBy

(* The first of the queue is taken, cut to what fits. *)
LEMMA HeardFirst ==
  ASSUME NEW t, NEW g \in Seq(Notification), NEW q \in Seq(Notification),
         NEW m \in Seq(Notification), HeardBy(t, g, q, m), q # <<>>
  PROVE  LET d == IF Head(q).text = "long" THEN [Head(q) EXCEPT !.text = "cut"] ELSE Head(q)
         IN  HeardBy(t, Append(g, d), Tail(q), m)
<1> DEFINE d == IF Head(q).text = "long" THEN [Head(q) EXCEPT !.text = "cut"] ELSE Head(q)
<1>1. /\ Len(g) \in Nat /\ Len(q) \in Nat \ {0} /\ Head(q) = q[1]
      /\ q[1] \in Notification /\ Tail(q) \in Seq(Notification)
      /\ Len(Tail(q)) = Len(q) - 1
      /\ \A i \in 1..Len(Tail(q)) : Tail(q)[i] = q[i + 1]
  BY HeadTailProperties, EmptySeq
<1>2. Fits(t, q[1], m[Len(g) + 1])
  BY <1>1 DEF HeardBy
<1>3. d \in Notification /\ Fits(t, d, m[Len(g) + 1])
  BY <1>1, <1>2 DEF Fits, Notification
<1> HIDE DEF d
<1>4. /\ Len(Append(g, d)) = Len(g) + 1
      /\ Append(g, d)[Len(g) + 1] = d
      /\ \A i \in 1..Len(g) : Append(g, d)[i] = g[i]
  BY <1>3, AppendProperties
<1>5. \A i \in 1..Len(Append(g, d)) : Fits(t, Append(g, d)[i], m[i])
  <2> SUFFICES ASSUME NEW i \in 1..Len(Append(g, d))
               PROVE  Fits(t, Append(g, d)[i], m[i])
    OBVIOUS
  <2>1. CASE i = Len(g) + 1
    BY <1>3, <1>4, <2>1
  <2>2. CASE i \in 1..Len(g)
    BY <1>4, <2>2 DEF HeardBy
  <2> QED BY <1>1, <1>4, <2>1, <2>2
<1>6. \A i \in 1..Len(Tail(q)) : Fits(t, Tail(q)[i], m[Len(Append(g, d)) + i])
  <2> SUFFICES ASSUME NEW i \in 1..Len(Tail(q))
               PROVE  Fits(t, Tail(q)[i], m[Len(Append(g, d)) + i])
    OBVIOUS
  <2>1. i + 1 \in 1..Len(q) /\ Len(Append(g, d)) + i = Len(g) + (i + 1)
    BY <1>1, <1>4
  <2>2. Fits(t, q[i + 1], m[Len(g) + (i + 1)])
    BY <2>1 DEF HeardBy
  <2> QED BY <1>1, <2>1, <2>2
<1>7. Len(Append(g, d)) + Len(Tail(q)) = Len(m)
  BY <1>1, <1>4 DEF HeardBy
<1> QED BY <1>5, <1>6, <1>7 DEF HeardBy, d

(* One more is sent, and received. *)
LEMMA HeardMore ==
  ASSUME NEW t, NEW g \in Seq(Notification), NEW q \in Seq(Notification),
         NEW m \in Seq(Notification), HeardBy(t, g, q, m),
         NEW d \in Notification, d.from = t
  PROVE  HeardBy(t, g, Append(q, d), Append(m, d))
<1>1. /\ Len(g) \in Nat /\ Len(q) \in Nat /\ Len(m) \in Nat
      /\ Len(g) + Len(q) = Len(m)
  BY DEF HeardBy
<1>2. /\ Len(Append(q, d)) = Len(q) + 1 /\ Len(Append(m, d)) = Len(m) + 1
      /\ Append(q, d)[Len(q) + 1] = d /\ Append(m, d)[Len(m) + 1] = d
      /\ \A i \in 1..Len(q) : Append(q, d)[i] = q[i]
      /\ \A i \in 1..Len(m) : Append(m, d)[i] = m[i]
  BY AppendProperties
<1>3. \A i \in 1..Len(g) : Fits(t, g[i], Append(m, d)[i])
  <2> SUFFICES ASSUME NEW i \in 1..Len(g) PROVE Fits(t, g[i], Append(m, d)[i])
    OBVIOUS
  <2>1. i \in 1..Len(m) /\ Fits(t, g[i], m[i])
    BY <1>1 DEF HeardBy
  <2> QED BY <1>2, <2>1
<1>4. \A i \in 1..Len(Append(q, d)) : Fits(t, Append(q, d)[i], Append(m, d)[Len(g) + i])
  <2> SUFFICES ASSUME NEW i \in 1..Len(q) + 1
               PROVE  Fits(t, Append(q, d)[i], Append(m, d)[Len(g) + i])
    BY <1>2
  <2>1. CASE i = Len(q) + 1
    <3>1. Len(g) + i = Len(m) + 1
      BY <1>1, <2>1
    <3> QED BY <1>2, <2>1, <3>1 DEF Fits
  <2>2. CASE i \in 1..Len(q)
    <3>1. Len(g) + i \in 1..Len(m) /\ Fits(t, q[i], m[Len(g) + i])
      BY <1>1, <2>2 DEF HeardBy
    <3> QED BY <1>2, <2>2, <3>1
  <2> QED BY <1>1, <2>1, <2>2
<1>5. Len(g) + Len(Append(q, d)) = Len(Append(m, d))
  BY <1>1, <1>2
<1> QED BY <1>3, <1>4, <1>5 DEF HeardBy
-----------------------------------------------------------------------------
(* A test at work that stays uncrowded is alone, before and after. *)
LEMMA AloneAfter ==
  ASSUME Recorded, NEW t \in Tests \ crowded', Busy(t)'
  PROVE  t \in Tests \ crowded /\ ~survivor' /\ \A u \in Tests \ {t} : ~(Busy(u)')
  BY DEF Recorded

(* Every step keeps the tests apart. *)
LEMMA AloneStep == Alone /\ [Next]_vars => Alone'
<1> SUFFICES ASSUME Alone, [Next]_vars PROVE Alone'
  OBVIOUS
<1>1. CASE Recorded
  BY <1>1, AloneAfter DEF Alone
<1>2. CASE UNCHANGED vars
  BY <1>2 DEF vars, testVars, Alone, Busy
<1> QED BY <1>1, <1>2 DEF Next

(* A step of one test leaves what is another's. *)
LEMMA OthersLeave ==
  ASSUME TypeOK, NEW t \in Tests, NEW u \in Tests \ {t}, TestStep(u)
  PROVE  /\ UNCHANGED <<place[t], env[t], program[t]>>
         /\ UNCHANGED <<queue[t], meant[t], got[t]>>
         /\ t \in informed' <=> t \in informed
<1>1. UNCHANGED <<place[t], env[t], program[t]>>
  BY DEF TestStep, Unlink, Bind, Setenv, SetenvThrows, Close, UnlinkAgain, GetNotification,
         TimesOut, Receives, Start, Ends, Dies, MovesTo, TypeOK
<1>2. UNCHANGED <<queue[t], meant[t], got[t]>>
  BY DEF TestStep, Unlink, Bind, Setenv, SetenvThrows, Close, UnlinkAgain, GetNotification,
         TimesOut, Receives, Start, Ends, Dies, Forgotten, historyVars, TypeOK
<1>3. t \in informed' <=> t \in informed
  BY DEF TestStep, Unlink, Bind, Setenv, SetenvThrows, Close, UnlinkAgain, GetNotification,
         TimesOut, Receives, Start, Ends, Dies, historyVars
<1> QED BY <1>1, <1>2, <1>3

(* A test at work that stays uncrowded keeps the path. *)
LEMMA OthersLeavePath ==
  ASSUME TypeOK, Alone, Recorded, NEW t \in Tests \ crowded', Busy(t)',
         NEW u \in Tests \ {t}, TestStep(u)
  PROVE  path' = path
<1>1. t \in Tests \ crowded /\ ~Busy(u)'
  BY AloneAfter
<1>2. Busy(t)
  BY OthersLeave DEF Busy
<1>3. ~Busy(u)
  BY <1>1, <1>2 DEF Alone
<1>4. place[u] = "none" /\ place'[u] = "none" /\ path # u
  BY <1>1, <1>3 DEF Busy, TypeOK
<1>5. ~Unlink(u)
  BY <1>4 DEF Unlink, MovesTo, TypeOK
<1> QED BY <1>4, <1>5 DEF TestStep, Bind, Setenv, SetenvThrows, Close, UnlinkAgain, GetNotification,
              TimesOut, Receives, Start, Ends, Dies

(* Every step leaves the path as a test that works alone has left it. *)
LEMMA PathStep ==
  ASSUME TypeOK, Alone, PathKept, [Next]_vars PROVE PathKept'
<1>1. CASE UNCHANGED vars
  BY <1>1 DEF vars, testVars, PathKept
<1> SUFFICES ASSUME Next, NEW t \in Tests \ crowded'
             PROVE  /\ place'[t] = "unlinked" => path' \in {"none", "foreign"}
                    /\ place'[t] = "not_bound" => path' = "foreign"
                    /\ place'[t] \in Open => path' = t
  BY <1>1 DEF PathKept
<1> SUFFICES ASSUME place'[t] # "none"
             PROVE  /\ place'[t] = "unlinked" => path' \in {"none", "foreign"}
                    /\ place'[t] = "not_bound" => path' = "foreign"
                    /\ place'[t] \in Open => path' = t
  BY DEF Open
<1>2. Recorded /\ Busy(t)'
  BY DEF Next, Busy
<1>3. t \in Tests \ crowded
  BY <1>2, AloneAfter
<1>4. /\ place[t] = "unlinked" => path \in {"none", "foreign"}
      /\ place[t] = "not_bound" => path = "foreign"
      /\ place[t] \in Open => path = t
  BY <1>3 DEF PathKept
<1>5. CASE UNCHANGED <<path, place[t]>>
  BY <1>4, <1>5
<1>6. CASE TestStep(t)
  <2>1. CASE Unlink(t)
    <3>1. place'[t] \in {"unlinked", "no_socket"} /\ path' \in {"none", "foreign"}
      BY <2>1, UnlinkedPath DEF Unlink, MovesTo, TypeOK
    <3> QED BY <3>1 DEF Open
  <2>2. CASE Bind(t)
    <3>1. \/ path' = t /\ place'[t] = "bound"
          \/ path' = path /\ path = "foreign" /\ place'[t] = "not_bound"
      BY <1>4, <2>2 DEF Bind, MovesTo, TypeOK
    <3> QED BY <3>1 DEF Open
  <2>3. CASE Setenv(t) \/ GetNotification(t) \/ TimesOut(t) \/ Receives(t)
    <3>1. path' = path /\ place[t] \in Open /\ place'[t] \in {"ready", "polling"}
      BY <2>3 DEF Setenv, GetNotification, TimesOut, Receives, MovesTo, Open, TypeOK
    <3> QED BY <1>4, <3>1
  <2>4. CASE Close(t) \/ SetenvThrows(t) \/ UnlinkAgain(t) \/ Dies(t)
    <3>1. place'[t] \in {"closed", "no_env", "none"}
      BY <2>4 DEF Close, SetenvThrows, UnlinkAgain, Dies, MovesTo, TypeOK
    <3> QED BY <3>1 DEF Open
  <2>5. CASE Start(t) \/ Ends(t)
    BY <1>5, <2>5 DEF Start, Ends
  <2> QED BY <1>6, <2>1, <2>2, <2>3, <2>4, <2>5 DEF TestStep
<1>7. ASSUME NEW u \in Tests \ {t}, TestStep(u) PROVE UNCHANGED <<path, place[t]>>
  BY <1>2, <1>7, OthersLeave, OthersLeavePath
<1>8. CASE \/ SurvivorEnds
           \/ \E text \in {"fits", "long"} :
                SurvivorSends(text) \/ \E u \in Tests : ProgramSends(u, text)
  BY <1>5, <1>8 DEF SurvivorEnds, SurvivorSends, ProgramSends, testVars
<1> QED BY <1>5, <1>6, <1>7, <1>8 DEF Next

(* A delivered datagram is appended to the one queue the path leads to, if *)
(* that test's socket is open.                                             *)
LEMMA DeliveredTo ==
  ASSUME TypeOK, NEW d, Delivered(d), NEW t \in Tests
  PROVE  /\ path = t /\ place[t] \in Open => queue'[t] = Append(queue[t], d)
         /\ path # t \/ place[t] \notin Open => queue'[t] = queue[t]
  BY DEF Delivered, TypeOK, Open

(* No step sends anything to a test without a socket. *)
LEMMA KeptStep ==
  ASSUME TypeOK, NothingKept, [Next]_vars PROVE NothingKept'
<1>1. CASE UNCHANGED vars
  BY <1>1 DEF vars, testVars, historyVars, NothingKept
<1> SUFFICES ASSUME Next, NEW t \in Tests, place'[t] \notin Open
             PROVE  queue'[t] = <<>> /\ got'[t] = <<>> /\ meant'[t] = <<>>
  BY <1>1 DEF NothingKept
<1>2. CASE UNCHANGED <<place[t], queue[t], got[t], meant[t]>>
  BY <1>2 DEF NothingKept
<1>3. CASE TestStep(t)
  <2>1. CASE Close(t) \/ SetenvThrows(t) \/ Dies(t)
    BY <2>1 DEF Close, SetenvThrows, Dies, Forgotten, TypeOK
  <2>2. CASE Setenv(t) \/ GetNotification(t) \/ TimesOut(t) \/ Receives(t)
    <3>1. place'[t] \in {"ready", "polling"}
      BY <2>2 DEF Setenv, GetNotification, TimesOut, Receives, MovesTo, TypeOK
    <3> QED BY <3>1 DEF Open
  <2>3. CASE Unlink(t) \/ Bind(t) \/ UnlinkAgain(t)
    <3>1. place[t] \notin Open
      BY <2>3 DEF Unlink, Bind, UnlinkAgain, Open, Thrown
    <3> QED BY <2>3, <3>1 DEF Unlink, Bind, UnlinkAgain, historyVars, NothingKept
  <2>4. CASE Start(t) \/ Ends(t)
    BY <1>2, <2>4 DEF Start, Ends, historyVars
  <2> QED BY <1>3, <2>1, <2>2, <2>3, <2>4 DEF TestStep
<1>4. ASSUME NEW u \in Tests \ {t}, TestStep(u)
      PROVE  UNCHANGED <<place[t], queue[t], got[t], meant[t]>>
  BY <1>4, OthersLeave
<1>5. ASSUME NEW text \in {"fits", "long"},
             SurvivorSends(text) \/ \E u \in Tests : ProgramSends(u, text)
      PROVE  UNCHANGED <<place[t], queue[t], got[t], meant[t]>>
  <2>1. UNCHANGED <<place, got>> /\ place[t] \notin Open
    BY <1>5 DEF SurvivorSends, ProgramSends, testVars, historyVars
  <2>2. CASE SurvivorSends(text)
    BY <2>1, <2>2, DeliveredTo DEF SurvivorSends, historyVars
  <2>3. ASSUME NEW u \in Tests, ProgramSends(u, text)
        PROVE  UNCHANGED <<queue[t], meant[t]>>
    <3>1. queue'[t] = queue[t]
      BY <2>1, <2>3, DeliveredTo DEF ProgramSends
    <3>2. meant'[t] = meant[t]
      BY <2>1, <2>3 DEF ProgramSends, TypeOK, Open
    <3> QED BY <3>1, <3>2
  <2> QED BY <1>5, <2>1, <2>2, <2>3
<1>6. CASE SurvivorEnds
  BY <1>2, <1>6 DEF SurvivorEnds, testVars, historyVars
<1> QED BY <1>2, <1>3, <1>4, <1>5, <1>6 DEF Next

(* Every step keeps who has inherited NOTIFY_SOCKET. *)
LEMMA InheritedStep ==
  ASSUME TypeOK, Inherited, [Next]_vars PROVE Inherited'
<1>1. CASE UNCHANGED vars
  BY <1>1 DEF vars, testVars, historyVars, Inherited
<1> SUFFICES ASSUME Next, NEW t \in Tests
             PROVE  /\ place'[t] \in {"ready", "polling"} => env'[t] # "unset"
                    /\ program'[t] # "none" /\ env'[t] # "preset" =>
                         (program'[t] = "ours" <=> t \in informed')
  BY <1>1 DEF Inherited
<1>2. CASE /\ UNCHANGED <<place[t], env[t], program[t]>>
           /\ t \in informed' <=> t \in informed
  BY <1>2 DEF Inherited
<1>3. CASE TestStep(t)
  <2>1. CASE Setenv(t)
    <3>1. /\ env'[t] = EnvAfterSet(t) /\ program' = program /\ informed' = informed
      BY <2>1 DEF Setenv, historyVars, TypeOK
    <3>2. env'[t] # "unset" /\ (env'[t] # "preset" => env[t] # "preset")
      BY <3>1 DEF EnvAfterSet
    <3> QED BY <3>1, <3>2 DEF Inherited
  <2>2. CASE GetNotification(t) \/ TimesOut(t) \/ Receives(t)
    <3>1. /\ place[t] \in {"ready", "polling"}
          /\ UNCHANGED <<env, program, informed>>
      BY <2>2 DEF GetNotification, TimesOut, Receives, historyVars
    <3> QED BY <3>1 DEF Inherited
  <2>3. CASE Unlink(t) \/ Bind(t) \/ SetenvThrows(t) \/ Close(t) \/ UnlinkAgain(t)
    <3>1. /\ place'[t] \notin {"ready", "polling"}
          /\ UNCHANGED <<env, program, informed>>
      BY <2>3 DEF Unlink, Bind, SetenvThrows, Close, UnlinkAgain, MovesTo, historyVars, TypeOK
    <3> QED BY <3>1 DEF Inherited
  <2>4. CASE Start(t)
    <3>1. /\ program'[t] = env[t] /\ UNCHANGED <<env, place>>
          /\ t \in informed' <=> env[t] = "ours" \/ place[t] = "ready"
      BY <2>4 DEF Start, TypeOK
    <3> QED BY <3>1 DEF Inherited, TypeOK
  <2>5. CASE Ends(t)
    <3>1. program'[t] = "none" /\ UNCHANGED <<env, place>>
      BY <2>5 DEF Ends, TypeOK
    <3> QED BY <3>1 DEF Inherited
  <2>6. CASE Dies(t)
    <3>1. program'[t] = "none" /\ place'[t] = "none"
      BY <2>6 DEF Dies, MovesTo, TypeOK
    <3> QED BY <3>1
  <2> QED BY <1>3, <2>1, <2>2, <2>3, <2>4, <2>5, <2>6 DEF TestStep
<1>4. ASSUME NEW u \in Tests \ {t}, TestStep(u)
      PROVE  /\ UNCHANGED <<place[t], env[t], program[t]>>
             /\ t \in informed' <=> t \in informed
  BY <1>4, OthersLeave
<1>5. CASE \/ SurvivorEnds
           \/ \E text \in {"fits", "long"} :
                SurvivorSends(text) \/ \E u \in Tests : ProgramSends(u, text)
  BY <1>2, <1>5 DEF SurvivorEnds, SurvivorSends, ProgramSends, testVars, historyVars
<1> QED BY <1>2, <1>3, <1>4, <1>5 DEF Next

(* Every step keeps what a test got what was meant for it. *)
LEMMA HeardStep ==
  ASSUME TypeOK, Alone, PathKept, NothingKept, Inherited, Heard, [Next]_vars
  PROVE  Heard'
<1>1. CASE UNCHANGED vars
  BY <1>1 DEF vars, testVars, historyVars, Heard
<1> SUFFICES ASSUME Next, NEW t \in Tests \ crowded',
                    place'[t] \in Open, env'[t] # "preset"
             PROVE  HeardBy(t, got'[t], queue'[t], meant'[t])
  BY <1>1 DEF Heard
<1>2. Recorded /\ Busy(t)'
  BY DEF Next, Busy, Open
<1>3. t \in Tests \ crowded
  BY <1>2, AloneAfter
<1>4. /\ got[t] \in Seq(Notification) /\ queue[t] \in Seq(Notification)
      /\ meant[t] \in Seq(Notification)
  BY DEF TypeOK
<1>5. CASE /\ place[t] \in Open /\ env[t] # "preset"
           /\ UNCHANGED <<queue[t], got[t], meant[t]>>
  BY <1>3, <1>5 DEF Heard
<1>6. CASE TestStep(t)
  <2>1. CASE Bind(t)
    <3>1. place[t] \notin Open /\ UNCHANGED <<queue, got, meant>>
      BY <2>1 DEF Bind, Open, historyVars
    <3> QED BY <3>1, HeardNothing DEF NothingKept
  <2>2. CASE Receives(t)
    <3>1. HeardBy(t, got[t], queue[t], meant[t]) /\ queue[t] # <<>>
      BY <1>3, <2>2 DEF Heard, Receives, Open
    <3>2. /\ queue'[t] = Tail(queue[t]) /\ meant'[t] = meant[t]
          /\ got'[t] = Append(got[t], IF Head(queue[t]).text = "long"
                                      THEN [Head(queue[t]) EXCEPT !.text = "cut"]
                                      ELSE Head(queue[t]))
      BY <2>2 DEF Receives, TypeOK
    <3> QED BY <1>4, <3>1, <3>2, HeardFirst
  <2>3. CASE Setenv(t)
    <3>1. place[t] \in Open /\ env'[t] = EnvAfterSet(t) /\ UNCHANGED <<queue, got, meant>>
      BY <2>3 DEF Setenv, Open, historyVars, TypeOK
    <3> QED BY <1>5, <3>1 DEF EnvAfterSet
  <2>4. CASE GetNotification(t) \/ TimesOut(t) \/ Start(t) \/ Ends(t)
    <3>1. place[t] \in Open
      BY <2>4 DEF GetNotification, TimesOut, Start, Ends, Open
    <3> QED BY <1>5, <2>4, <3>1
            DEF GetNotification, TimesOut, Start, Ends, historyVars
  <2>5. CASE Unlink(t) \/ SetenvThrows(t) \/ Close(t) \/ UnlinkAgain(t) \/ Dies(t)
    BY <2>5 DEF Unlink, SetenvThrows, Close, UnlinkAgain, Dies, MovesTo, Open, TypeOK
  <2> QED BY <1>6, <2>1, <2>2, <2>3, <2>4, <2>5 DEF TestStep
<1>7. ASSUME NEW u \in Tests \ {t}, TestStep(u)
      PROVE  HeardBy(t, got'[t], queue'[t], meant'[t])
  BY <1>5, <1>7, OthersLeave
<1>8. ASSUME NEW u \in Tests, NEW text \in {"fits", "long"}, ProgramSends(u, text)
      PROVE  HeardBy(t, got'[t], queue'[t], meant'[t])
  <2> DEFINE d == [from |-> u, text |-> text]
  <2>1. UNCHANGED <<place, env, program, got>>
    BY <1>8 DEF ProgramSends, testVars
  <2>2. Busy(t) /\ path = t /\ HeardBy(t, got[t], queue[t], meant[t])
    BY <1>3, <2>1 DEF Busy, Open, PathKept, Heard
  <2>3. CASE u # t
    <3>1. ~Busy(u)
      BY <1>3, <2>2, <2>3 DEF Alone
    <3>2. queue' = queue /\ meant'[t] = meant[t]
      BY <1>8, <2>3, <3>1 DEF ProgramSends, Busy, TypeOK
    <3> QED BY <2>1, <2>2, <3>2
  <2>4. CASE u = t
    <3>1. program[t] # "none" /\ (program[t] = "ours" <=> t \in informed)
      BY <1>8, <2>1, <2>4 DEF ProgramSends, Inherited
    <3>2. CASE t \in informed
      <4>1. queue'[t] = Append(queue[t], d)
        BY <1>8, <2>1, <2>2, <2>4, <3>1, <3>2, DeliveredTo DEF ProgramSends
      <4>2. meant'[t] = Append(meant[t], d)
        BY <1>8, <2>1, <2>4, <3>2 DEF ProgramSends, TypeOK, Open
      <4>3. d \in Notification /\ d.from = t
        BY <2>4 DEF Notification
      <4> QED BY <1>4, <2>1, <2>2, <4>1, <4>2, <4>3, HeardMore
    <3>3. CASE t \notin informed
      BY <1>8, <2>1, <2>2, <2>4, <3>1, <3>3 DEF ProgramSends
    <3> QED BY <3>2, <3>3
  <2> QED BY <2>3, <2>4
<1>9. ASSUME NEW text \in {"fits", "long"}, SurvivorSends(text) PROVE FALSE
  <2>1. Busy(t) /\ survivor
    BY <1>2, <1>9 DEF SurvivorSends, testVars, Busy
  <2> QED BY <1>3, <2>1 DEF Alone
<1>10. CASE SurvivorEnds
  BY <1>5, <1>10 DEF SurvivorEnds, testVars, historyVars
<1> QED BY <1>6, <1>7, <1>8, <1>9, <1>10 DEF Next
-----------------------------------------------------------------------------
(* The inductive invariant holds always. *)
LEMMA Inductive == Spec => []IInv
<1>1. Init => IInv
  <2> SUFFICES ASSUME Init PROVE IInv
    OBVIOUS
  <2>1. TypeOK
    BY Initially
  <2>2. \A t \in Tests : ~Busy(t) /\ place[t] = "none" /\ program[t] = "none"
    BY DEF Init, Busy
  <2>3. NothingKept
    BY DEF Init, NothingKept
  <2> QED BY <2>1, <2>2, <2>3 DEF IInv, Alone, PathKept, Inherited, Heard, Open
<1>2. TypeOK' /\ IInv /\ [Next]_vars => IInv'
  BY AloneStep, PathStep, KeptStep, InheritedStep, HeardStep DEF IInv
<1> QED BY <1>1, <1>2, Typing, PTL DEF Spec

(* A constructor of a test that has the machine to itself finds the path   *)
(* free, unless what is there is another user's: whatever tests before it  *)
(* left, killed ones too.                                                  *)
THEOREM PathSafety == Spec => []BindNeedsPath
<1>1. IInv => BindNeedsPath
  BY DEF IInv, PathKept, BindNeedsPath
<1> QED BY <1>1, Inductive, PTL

(* As the property has it: got and queue are one sequence. *)
HeardAsWhole(t, g, q, m) ==
  LET all == g \o q IN
    /\ Len(all) = Len(m)
    /\ \A i \in DOMAIN all : all[i].from = t /\ (all[i] = m[i] \/ m[i].text = "long")

(* What was heard of each test is what was heard as a whole. *)
LEMMA HeardTogether ==
  ASSUME NEW t, NEW g \in Seq(Notification), NEW q \in Seq(Notification),
         NEW m \in Seq(Notification), HeardBy(t, g, q, m)
  PROVE  HeardAsWhole(t, g, q, m)
<1> DEFINE all == g \o q
<1>1. /\ all \in Seq(Notification)
      /\ Len(all) = Len(g) + Len(q) /\ Len(g) \in Nat /\ Len(q) \in Nat
      /\ \A i \in 1..Len(all) :
           all[i] = IF i <= Len(g) THEN g[i] ELSE q[i - Len(g)]
  BY ConcatProperties
<1> HIDE DEF all
<1>2. ASSUME NEW i \in 1..Len(all) PROVE Fits(t, all[i], m[i])
  <2>1. CASE i <= Len(g)
    <3>1. i \in 1..Len(g) /\ all[i] = g[i]
      BY <1>1, <2>1
    <3> QED BY <3>1 DEF HeardBy
  <2>2. CASE ~(i <= Len(g))
    <3>0. i \in Nat /\ Len(g) \in Nat
      BY <1>1
    <3>1. PICK j \in Nat : i = Len(g) + j
      <4>1. i - Len(g) \in Nat /\ i = Len(g) + (i - Len(g))
        BY <2>2, <3>0
      <4> QED BY <4>1
    <3>2. j \in 1..Len(q) /\ i - Len(g) = j
      BY <1>1, <2>2, <3>1
    <3>3. all[i] = q[j]
      BY <1>1, <2>2, <3>2
    <3> QED BY <3>1, <3>2, <3>3 DEF HeardBy
  <2> QED BY <2>1, <2>2
<1>3. DOMAIN all = 1..Len(all)
  BY <1>1
<1>4. Len(all) = Len(m)
  BY <1>1 DEF HeardBy
<1> QED BY <1>2, <1>3, <1>4 DEF Fits, all, HeardAsWhole

(* A test that has the machine to itself is given what its program sends,  *)
(* in order and with nothing in between.                                   *)
THEOREM NotificationSafety == Spec => []NothingLost
<1>1. IInv => NothingLost
  <2> SUFFICES ASSUME IInv, NEW t \in Tests \ crowded,
                      place[t] \in {"ready", "polling"}, env[t] # "preset"
               PROVE  HeardAsWhole(t, got[t], queue[t], meant[t])
    BY DEF NothingLost, HeardAsWhole
  <2>1. /\ got[t] \in Seq(Notification) /\ queue[t] \in Seq(Notification)
        /\ meant[t] \in Seq(Notification)
        /\ HeardBy(t, got[t], queue[t], meant[t])
    BY DEF IInv, TypeOK, Heard, Open
  <2> QED BY <2>1, HeardTogether
<1> QED BY <1>1, Inductive, PTL
=============================================================================
