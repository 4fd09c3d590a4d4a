------------------------- MODULE BackendProxyProofs -------------------------
(***************************************************************************)
(* Proofs about BackendProxy, for any number of objects, contents and      *)
(* messages.                                                               *)
(***************************************************************************)
EXTENDS BackendProxy, SequenceTheorems, TLAPS

-----------------------------------------------------------------------------
(* What RemoveAt leaves: the elements before i, and those after it one     *)
(* place earlier.                                                          *)
LEMMA RemoveAtElements ==
  ASSUME NEW S, NEW s \in Seq(S), NEW i \in 1..Len(s)
  PROVE  /\ RemoveAt(s, i) \in Seq(S)
         /\ Len(RemoveAt(s, i)) = Len(s) - 1
         /\ \A j \in 1..(Len(s) - 1) :
              RemoveAt(s, i)[j] = IF j < i THEN s[j] ELSE s[j + 1]
<1> DEFINE a == SubSeq(s, 1, i - 1)
           b == SubSeq(s, i + 1, Len(s))
<1>1. a \in Seq(S) /\ Len(a) = i - 1 /\ \A j \in 1..(i - 1) : a[j] = s[j]
  OBVIOUS
<1>2. b \in Seq(S) /\ Len(b) = Len(s) - i /\ \A j \in 1..(Len(s) - i) : b[j] = s[j + i]
  OBVIOUS
<1>3. RemoveAt(s, i) = a \o b
  BY DEF RemoveAt
<1> HIDE DEF a, b
<1>4. /\ a \o b \in Seq(S) /\ Len(a \o b) = Len(s) - 1
      /\ \A j \in 1..(Len(s) - 1) :
           (a \o b)[j] = IF j <= i - 1 THEN a[j] ELSE b[j - (i - 1)]
  <2>1. /\ a \o b \in Seq(S) /\ Len(a \o b) = Len(a) + Len(b)
        /\ \A j \in 1..(Len(a) + Len(b)) :
             (a \o b)[j] = IF j <= Len(a) THEN a[j] ELSE b[j - Len(a)]
    BY <1>1, <1>2, ConcatProperties
  <2>2. Len(a) + Len(b) = Len(s) - 1 /\ Len(a) = i - 1
    BY <1>1, <1>2
  <2> QED
    BY <2>1, <2>2
<1>5. ASSUME NEW j \in 1..(Len(s) - 1)
      PROVE  (a \o b)[j] = IF j < i THEN s[j] ELSE s[j + 1]
  <2>1. CASE j < i
    <3>1. j <= i - 1 /\ j \in 1..(i - 1)
      BY <2>1
    <3> QED
      BY <1>1, <1>4, <2>1, <3>1
  <2>2. CASE ~(j < i)
    <3>1. ~(j <= i - 1) /\ j - (i - 1) \in 1..(Len(s) - i) /\ j - (i - 1) + i = j + 1
      BY <2>2
    <3>2. (a \o b)[j] = b[j - (i - 1)]
      BY <1>4, <3>1
    <3>3. b[j - (i - 1)] = s[j - (i - 1) + i]
      BY <1>2, <3>1
    <3> QED
      BY <2>2, <3>1, <3>2, <3>3
  <2> QED
    BY <2>1, <2>2
<1> QED
  BY <1>3, <1>4, <1>5

(* Removing from the first of two sequences. *)
LEMMA RemoveAtFirst ==
  ASSUME NEW S, NEW s \in Seq(S), NEW t \in Seq(S), NEW i \in 1..Len(s)
  PROVE  RemoveAt(s \o t, i) = RemoveAt(s, i) \o t
<1> DEFINE u == s \o t
           v == RemoveAt(s, i)
           n == Len(s) + Len(t)
<1>1. /\ u \in Seq(S) /\ Len(u) = n
      /\ \A j \in 1..n : u[j] = IF j <= Len(s) THEN s[j] ELSE t[j - Len(s)]
  BY ConcatProperties
<1>2. /\ v \in Seq(S) /\ Len(v) = Len(s) - 1
      /\ \A j \in 1..(Len(s) - 1) : v[j] = IF j < i THEN s[j] ELSE s[j + 1]
  BY RemoveAtElements
<1>3. Len(s) \in Nat /\ Len(t) \in Nat
  OBVIOUS
<1> HIDE DEF u, v
<1> DEFINE l == RemoveAt(u, i)
           r == v \o t
<1>4. i \in 1..Len(u) /\ n \in Nat
  BY <1>1, <1>3
<1>5. /\ l \in Seq(S) /\ Len(l) = Len(u) - 1
      /\ \A j \in 1..(Len(u) - 1) : l[j] = IF j < i THEN u[j] ELSE u[j + 1]
  BY <1>1, <1>4, RemoveAtElements
<1>6. /\ r \in Seq(S) /\ Len(r) = Len(v) + Len(t)
      /\ \A j \in 1..(Len(v) + Len(t)) :
           r[j] = IF j <= Len(v) THEN v[j] ELSE t[j - Len(v)]
  BY <1>2, ConcatProperties
<1> HIDE DEF l, r
<1>7. ASSUME NEW j \in 1..(n - 1)
      PROVE  l[j] = r[j]
  <2>1. CASE j <= Len(s) - 1
    <3> j \in 1..(Len(s) - 1) /\ j \in 1..(Len(v) + Len(t)) /\ j <= Len(v)
      BY <1>2, <1>3, <2>1
    <3>1. r[j] = v[j]
      BY <1>6
    <3>2. l[j] = IF j < i THEN u[j] ELSE u[j + 1]
      BY <1>1, <1>5
    <3>3. u[j] = s[j] /\ u[j + 1] = s[j + 1]
      BY <1>1, <1>3, <2>1
    <3> QED
      BY <1>2, <3>1, <3>2, <3>3
  <2>2. CASE ~(j <= Len(s) - 1)
    <3> j \in 1..(Len(v) + Len(t)) /\ ~(j <= Len(v)) /\ Len(v) = Len(s) - 1
      BY <1>2, <1>3, <2>2
    <3>1. r[j] = t[j - (Len(s) - 1)]
      BY <1>6
    <3>2. l[j] = u[j + 1]
      BY <1>1, <1>3, <1>5, <2>2
    <3>3. u[j + 1] = t[j + 1 - Len(s)] /\ j + 1 - Len(s) = j - (Len(s) - 1)
      BY <1>1, <1>3, <2>2
    <3> QED
      BY <3>1, <3>2, <3>3
  <2> QED
    BY <2>1, <2>2
<1>8. Len(l) = n - 1 /\ Len(r) = n - 1
  BY <1>1, <1>2, <1>3, <1>5, <1>6
<1>9. l = r
  BY <1>5, <1>6, <1>7, <1>8, SeqEqual
<1> QED
  BY <1>9 DEF l, r, u, v

(* Removing the head of the second of two sequences. *)
LEMMA RemoveAtSecond ==
  ASSUME NEW S, NEW s \in Seq(S), NEW t \in Seq(S), t # <<>>
  PROVE  RemoveAt(s \o t, Len(s) + 1) = s \o Tail(t)
<1> DEFINE u == s \o t
           v == Tail(t)
           k == Len(s)
           n == Len(s) + Len(t)
<1>1. /\ u \in Seq(S) /\ Len(u) = n
      /\ \A j \in 1..n : u[j] = IF j <= k THEN s[j] ELSE t[j - k]
  BY ConcatProperties
<1>2. /\ v \in Seq(S) /\ Len(v) = Len(t) - 1
      /\ \A j \in 1..Len(v) : v[j] = t[j + 1]
  BY HeadTailProperties
<1>3. k \in Nat /\ Len(t) \in Nat /\ Len(t) >= 1
  OBVIOUS
<1> HIDE DEF u, v
<1> DEFINE l == RemoveAt(u, k + 1)
           r == s \o v
<1>4. k + 1 \in 1..Len(u) /\ n \in Nat
  BY <1>1, <1>3
<1>5. /\ l \in Seq(S) /\ Len(l) = Len(u) - 1
      /\ \A j \in 1..(Len(u) - 1) : l[j] = IF j < k + 1 THEN u[j] ELSE u[j + 1]
  BY <1>1, <1>4, RemoveAtElements
<1>6. /\ r \in Seq(S) /\ Len(r) = k + Len(v)
      /\ \A j \in 1..(k + Len(v)) : r[j] = IF j <= k THEN s[j] ELSE v[j - k]
  BY <1>2, ConcatProperties
<1> HIDE DEF l, r
<1>7. ASSUME NEW j \in 1..(n - 1)
      PROVE  l[j] = r[j]
  <2>1. CASE j <= k
    <3>1. r[j] = s[j] /\ l[j] = u[j] /\ u[j] = s[j]
      BY <1>1, <1>2, <1>3, <1>5, <1>6, <2>1
    <3> QED
      BY <3>1
  <2>2. CASE ~(j <= k)
    <3> j \in 1..(k + Len(v)) /\ ~(j <= k)
      BY <1>2, <1>3, <2>2
    <3>1. r[j] = v[j - k] /\ j - k \in 1..Len(v)
      BY <1>6
    <3>2. v[j - k] = t[j - k + 1]
      BY <1>2, <3>1
    <3>3. l[j] = u[j + 1]
      BY <1>1, <1>3, <1>5, <2>2
    <3>4. u[j + 1] = t[j + 1 - k] /\ j + 1 - k = j - k + 1
      BY <1>1, <1>3, <2>2
    <3> QED
      BY <3>1, <3>2, <3>3, <3>4
  <2> QED
    BY <2>1, <2>2
<1>8. Len(l) = n - 1 /\ Len(r) = n - 1
  BY <1>1, <1>2, <1>3, <1>5, <1>6
<1>9. l = r
  BY <1>5, <1>6, <1>7, <1>8, SeqEqual
<1> QED
  BY <1>9 DEF l, r, u, v

(* Moving the head of the second sequence to the end of the first. *)
LEMMA MoveHead ==
  ASSUME NEW S, NEW s \in Seq(S), NEW t \in Seq(S), t # <<>>
  PROVE  Append(s, Head(t)) \o Tail(t) = s \o t
  OBVIOUS

(* Appending to the second sequence is appending to both. *)
LEMMA AppendSecond ==
  ASSUME NEW S, NEW s \in Seq(S), NEW t \in Seq(S), NEW m \in S
  PROVE  s \o Append(t, m) = Append(s \o t, m)
  OBVIOUS

(* What was appended is the last element, and the rest is in front of it. *)
LEMMA FrontOfAppend ==
  ASSUME NEW S, NEW s \in Seq(S), NEW m \in S
  PROVE  /\ Append(s, m) # <<>>
         /\ Front(Append(s, m)) = s
         /\ Last(Append(s, m)) = m
<1> DEFINE u == Append(s, m)
<1>1. /\ u \in Seq(S) /\ u # <<>> /\ Len(u) = Len(s) + 1
      /\ u[Len(u)] = m
      /\ \A j \in 1..Len(s) : u[j] = s[j]
  OBVIOUS
<1>2. Len(s) \in Nat
  OBVIOUS
<1> HIDE DEF u
<1> DEFINE f == SubSeq(u, 1, Len(u) - 1)
<1>3. f \in Seq(S) /\ Len(f) = Len(s) /\ \A j \in 1..Len(s) : f[j] = u[j]
  BY <1>1, <1>2
<1> HIDE DEF f
<1>4. f = s
  BY <1>1, <1>3, SeqEqual
<1> QED
  BY <1>1, <1>4 DEF u, f, Front, Last
-----------------------------------------------------------------------------
(* The queue holds messages in order of arrival, all newer than what any   *)
(* object has returned.                                                    *)
QueueOrder ==
  /\ \A i, j \in DOMAIN queue : i < j => queue[i].id < queue[j].id
  /\ \A i \in DOMAIN queue : queue[i].id <= arrived
  /\ \A p \in Proxies, c \in Contents : last[p][c] <= arrived
  /\ \A p \in Proxies, c \in Contents, i \in DOMAIN queue : last[p][c] < queue[i].id

(* So does message_queue_ of each object, between what the object has      *)
(* returned of the same content and what is still in the queue.            *)
KeptOrder ==
  \A p \in Proxies :
    /\ \A i, j \in DOMAIN message_queue[p] :
         i < j => message_queue[p][i].id < message_queue[p][j].id
    /\ \A i \in DOMAIN message_queue[p] :
         /\ message_queue[p][i].content \in Contents
         /\ message_queue[p][i].id <= arrived
         /\ last[p][message_queue[p][i].content] < message_queue[p][i].id
    /\ \A i \in DOMAIN message_queue[p], j \in DOMAIN queue :
         message_queue[p][i].id < queue[j].id

(* An object that has never shared the Client is alone and subscribed. *)
Unshared ==
  ~shared => /\ lost = {}
             /\ \A p, q \in Alive : p = q
             /\ Alive # {} => subscribed

(* An object that was never constructed has returned nothing. *)
Fresh ==
  \A p \in Proxies : status[p] = "unborn" => \A c \in Contents : last[p][c] = 0

IInv ==
  TypeOK /\ NeverWaitsForKept /\ QueueOrder /\ KeptOrder /\ Unshared /\ Fresh
-----------------------------------------------------------------------------
(* The inductive invariant holds at first. *)
LEMMA InitIInv == Init => IInv
<1> SUFFICES ASSUME Init PROVE IInv
  OBVIOUS
<1> USE DEF Init
<1>1. TypeOK
  <2>1. message_queue \in [Proxies -> Seq(Message)] /\ queue \in Seq(Message)
    OBVIOUS
  <2>2. arrived \in 0..MaxMessages /\ last \in [Proxies -> [Contents -> 0..MaxMessages]]
    BY ProxyAssumption
  <2>3. \A p \in Proxies : call[p] = "idle" /\ wanted[p] = "none"
    OBVIOUS
  <2> QED
    BY <2>1, <2>2, <2>3 DEF TypeOK
<1>2. NeverWaitsForKept /\ QueueOrder /\ KeptOrder /\ Fresh
  BY ProxyAssumption DEF NeverWaitsForKept, QueueOrder, KeptOrder, Fresh
<1>3. Unshared
  BY DEF Unshared, Alive
<1> QED
  BY <1>1, <1>2, <1>3 DEF IInv

(* The head of the queue, and what stays when it is taken. *)
LEMMA QueueTail ==
  ASSUME TypeOK, queue # <<>>
  PROVE  /\ Head(queue) \in Message /\ Head(queue) = queue[1]
         /\ Tail(queue) \in Seq(Message)
         /\ 1 \in DOMAIN queue
         /\ \A i \in DOMAIN Tail(queue) :
              i + 1 \in DOMAIN queue /\ 1 < i + 1 /\ Tail(queue)[i] = queue[i + 1]
<1>1. queue \in Seq(Message)
  BY DEF TypeOK
<1> QED
  BY <1>1

(* The first match is a message of message_queue_; what stays is the rest. *)
LEMMA KeptRest ==
  ASSUME TypeOK, NEW p \in Proxies, NEW i \in DOMAIN message_queue[p]
  PROVE  LET s == message_queue[p]
             r == RemoveAt(s, i)
         IN  /\ s[i] \in Message
             /\ r \in Seq(Message)
             /\ \A j \in DOMAIN r :
                  LET k == IF j < i THEN j ELSE j + 1
                  IN  k \in DOMAIN s /\ k # i /\ r[j] = s[k]
             /\ \A j, k \in DOMAIN r : j < k =>
                  (IF j < i THEN j ELSE j + 1) < (IF k < i THEN k ELSE k + 1)
<1> DEFINE s == message_queue[p]
           r == RemoveAt(s, i)
<1>1. s \in Seq(Message) /\ i \in 1..Len(s) /\ Len(s) \in Nat
  BY DEF TypeOK
<1> HIDE DEF s
<1>2. /\ r \in Seq(Message) /\ Len(r) = Len(s) - 1
      /\ \A j \in 1..(Len(s) - 1) : r[j] = IF j < i THEN s[j] ELSE s[j + 1]
  BY <1>1, RemoveAtElements
<1> HIDE DEF r
<1>3. DOMAIN r = 1..(Len(s) - 1) /\ DOMAIN s = 1..Len(s)
  BY <1>1, <1>2
<1>4. s[i] \in Message
  BY <1>1
<1>5. ASSUME NEW j \in DOMAIN r
      PROVE  LET k == IF j < i THEN j ELSE j + 1
             IN  k \in DOMAIN s /\ k # i /\ r[j] = s[k]
  BY <1>1, <1>2, <1>3, <1>5
<1>6. \A j, k \in DOMAIN r : j < k =>
        (IF j < i THEN j ELSE j + 1) < (IF k < i THEN k ELSE k + 1)
  BY <1>1, <1>3
<1> QED
  BY <1>2, <1>4, <1>5, <1>6 DEF r, s
-----------------------------------------------------------------------------
(* A call that is under way asks for a content id or for any. *)
LEMMA NoneWanted ==
  ASSUME TypeOK, NEW p \in Proxies, call[p] # "idle"
  PROVE  wanted[p] \in Requests /\ wanted[p] # Undecodable
  BY ProxyAssumption DEF TypeOK, Requests

(* A call under way goes on or ends; either way the objects stay alive. *)
LEMMA CallTypes ==
  ASSUME TypeOK, NEW p \in Proxies, call[p] # "idle", UNCHANGED status,
         \/ \E c \in {"get", "blocked"} : call' = [call EXCEPT ![p] = c] /\ wanted' = wanted
         \/ EndCall(p)
  PROVE  /\ call' \in [Proxies -> {"idle", "search", "get", "blocked", "dangling"}]
         /\ wanted' \in [Proxies -> Requests \cup {"none"}]
         /\ \A q \in Proxies : call'[q] = "idle" <=> wanted'[q] = "none"
         /\ \A q \in Proxies : call'[q] # "idle" => status'[q] = "alive"
<1>1. /\ call \in [Proxies -> {"idle", "search", "get", "blocked", "dangling"}]
      /\ wanted \in [Proxies -> Requests \cup {"none"}]
      /\ \A q \in Proxies : call[q] = "idle" <=> wanted[q] = "none"
      /\ \A q \in Proxies : call[q] # "idle" => status[q] = "alive"
  BY DEF TypeOK, Alive
<1>2. CASE \E c \in {"get", "blocked"} : call' = [call EXCEPT ![p] = c] /\ wanted' = wanted
  <2>1. PICK c \in {"get", "blocked"} : call' = [call EXCEPT ![p] = c] /\ wanted' = wanted
    BY <1>2
  <2> QED
    BY <1>1, <2>1
<1>3. CASE EndCall(p)
  BY <1>1, <1>3 DEF EndCall
<1> QED
  BY <1>2, <1>3

(* Every step keeps the types. *)
LEMMA TypeStep ==
  ASSUME TypeOK, KeptOrder, [Next]_vars
  PROVE  TypeOK'
<1> USE ProxyAssumption DEF TypeOK, Alive, Requests
<1>1. ASSUME NEW p \in Proxies, Construct(p) \/ ConstructThrows(p)
      PROVE  TypeOK'
  BY <1>1 DEF Construct, Subscribed, ConstructThrows, callVars
<1>2. ASSUME NEW p \in Proxies, Destroy(p)
      PROVE  TypeOK'
  <2>1. Ids(queue) \subseteq 1..MaxMessages
    <3>1. \A i \in DOMAIN queue : queue[i] \in Message
      OBVIOUS
    <3> QED
      BY <3>1 DEF Ids, Message
  <2>2. lost' \subseteq 1..MaxMessages
    BY <1>2, <2>1 DEF Destroy, Unsubscribe
  <2> QED
    <3>1. /\ status' \in [Proxies -> {"unborn", "alive", "dead"}]
          /\ message_queue' \in [Proxies -> Seq(Message)]
          /\ call' \in [Proxies -> {"idle", "search", "get", "blocked", "dangling"}]
          /\ queue' \in Seq(Message)
      BY <1>2 DEF Destroy, Unsubscribe
    <3>2. \A q \in Proxies : call'[q] = "idle" <=> call[q] = "idle"
      BY <1>2 DEF Destroy, Unsubscribe
    <3>3. \A q \in Proxies : call'[q] # "idle" => status'[q] = "alive"
      BY <1>2, <3>2 DEF Destroy, Unsubscribe
    <3> QED
      BY <1>2, <2>2, <3>1, <3>2, <3>3 DEF Destroy, Unsubscribe
<1>3. ASSUME NEW p \in Proxies, NEW q \in Proxies, Move(p, q)
      PROVE  TypeOK'
  <2>1. status' \in [Proxies -> {"unborn", "alive", "dead"}]
    BY <1>3 DEF Move
  <2>3. message_queue' \in [Proxies -> Seq(Message)]
    <3>1. message_queue[p] \in Seq(Message) /\ <<>> \in Seq(Message)
      OBVIOUS
    <3> QED
      BY <1>3, <3>1 DEF Move
  <2>4. last' \in [Proxies -> [Contents -> 0..MaxMessages]]
    BY <1>3 DEF Move
  <2>2. \A r \in Proxies : r \in Alive => r \in Alive'
    BY <1>3 DEF Move
  <2> QED
    BY <1>3, <2>1, <2>2, <2>3, <2>4 DEF Move, callVars, clientVars
<1>4. ASSUME NEW p \in Proxies, NEW r \in Requests, Ask(p, r)
      PROVE  TypeOK'
  BY <1>4 DEF Ask, proxyVars, clientVars
<1>5. ASSUME NEW c \in Contents \cup {Undecodable}, Arrive(c)
      PROVE  TypeOK'
  <2>1. arrived + 1 \in 1..MaxMessages
    BY <1>5 DEF Arrive
  <2>2. [id |-> arrived + 1, content |-> c] \in Message
    BY <2>1 DEF Message
  <2>3. arrived' \in 0..MaxMessages
    BY <1>5, <2>1 DEF Arrive
  <2>4. lost' = lost \/ lost' = lost \cup {arrived + 1}
    BY <1>5 DEF Arrive
  <2>5. lost' \subseteq 1..MaxMessages
    BY <2>1, <2>4
  <2>6. subscribed' = subscribed
    BY <1>5 DEF Arrive
  <2>7. queue' \in Seq(Message)
    <3>1. CASE subscribed
      <4>1. queue' = Append(queue, [id |-> arrived + 1, content |-> c])
        BY <1>5, <3>1 DEF Arrive
      <4>2. queue \in Seq(Message)
        OBVIOUS
      <4> QED
        BY <2>2, <4>1, <4>2
    <3>2. CASE ~subscribed
      BY <1>5, <3>2 DEF Arrive
    <3> QED
      BY <3>1, <3>2
  <2>8. ~subscribed' => queue' = <<>>
    BY <1>5 DEF Arrive
  <2> QED
    BY <1>5, <2>3, <2>5, <2>6, <2>7, <2>8 DEF Arrive, proxyVars, callVars
<1>6. ASSUME NEW p \in Proxies, SearchMessageQueue(p)
      PROVE  TypeOK'
  <2>1. ASSUME NEW i \in DOMAIN message_queue[p],
               message_queue' = [message_queue EXCEPT ![p] = RemoveAt(@, i)],
               Return(p, message_queue[p][i])
        PROVE  TypeOK'
    <3>1. message_queue' \in [Proxies -> Seq(Message)]
      BY <2>1, KeptRest
    <3> DEFINE m == message_queue[p][i]
    <3>2. m.content \in Contents /\ m.id \in 0..MaxMessages
      <4>1. m \in Message
        BY KeptRest
      <4>2. m.content \in Contents
        BY DEF KeptOrder
      <4> QED
        BY <4>1, <4>2 DEF Message
    <3>3. last' \in [Proxies -> [Contents -> 0..MaxMessages]]
      BY <2>1, <3>2 DEF Return
    <3> QED
      BY <1>6, <2>1, <3>1, <3>3 DEF SearchMessageQueue, Return, EndCall, clientVars
  <2>2. CASE call' = [call EXCEPT ![p] = "get"] /\ UNCHANGED <<wanted, message_queue, last>>
    BY <1>6, <2>2 DEF SearchMessageQueue, clientVars
  <2> QED
    BY <1>6, <2>1, <2>2 DEF SearchMessageQueue
<1>7. ASSUME NEW p \in Proxies, NegativeTimeout(p) \/ ClientReturnsNothing(p)
      PROVE  TypeOK'
  <2>1. /\ call[p] # "idle" /\ EndCall(p)
        /\ UNCHANGED <<proxyVars, clientVars, arrived, process, shared, lost, last>>
    BY <1>7 DEF NegativeTimeout, ClientReturnsNothing, ReturnNothing
  <2> QED
    BY <2>1, CallTypes DEF proxyVars, clientVars
<1>8. ASSUME NEW p \in Proxies, ClientHasMessage(p)
      PROVE  TypeOK'
  <2> DEFINE m == Head(queue)
  <2>1. m \in Message /\ queue' \in Seq(Message) /\ queue # <<>>
    BY <1>8, QueueTail DEF ClientHasMessage
  <2>2. subscribed
    BY <2>1
  <2>3. m.id \in 0..MaxMessages /\ m.content \in Contents \cup {Undecodable}
    BY <2>1 DEF Message
  <2> HIDE DEF m
  <2>4. ASSUME message_queue' \in [Proxies -> Seq(Message)],
               last' \in [Proxies -> [Contents -> 0..MaxMessages]],
               \/ call' = [call EXCEPT ![p] = "get"] /\ wanted' = wanted
               \/ EndCall(p)
        PROVE  TypeOK'
    <3>1. call[p] # "idle" /\ UNCHANGED <<status, subscribed, arrived, process, shared, lost>>
      BY <1>8 DEF ClientHasMessage
    <3>2. /\ call' \in [Proxies -> {"idle", "search", "get", "blocked", "dangling"}]
          /\ wanted' \in [Proxies -> Requests \cup {"none"}]
          /\ \A q \in Proxies : call'[q] = "idle" <=> wanted'[q] = "none"
          /\ \A q \in Proxies : call'[q] # "idle" => status'[q] = "alive"
      BY <2>4, <3>1, CallTypes
    <3> QED
      BY <2>1, <2>2, <2>4, <3>1, <3>2
  <2>5. CASE ReturnNothing(p) /\ UNCHANGED message_queue
    BY <2>4, <2>5 DEF ReturnNothing
  <2>6. CASE Matches(m, wanted[p]) /\ Return(p, m) /\ UNCHANGED message_queue
    <3>1. m.content \in Contents
      <4>1. wanted[p] # Undecodable
        BY <2>2, <1>8, NoneWanted DEF ClientHasMessage
      <4> QED
        BY <2>3, <2>6, <4>1 DEF Matches
    <3>2. last' \in [Proxies -> [Contents -> 0..MaxMessages]]
      BY <2>3, <2>6, <3>1 DEF Return
    <3> QED
      BY <2>4, <2>6, <3>2 DEF Return
  <2>7. CASE Keep(p, m)
    <3>1. message_queue' \in [Proxies -> Seq(Message)]
      BY <2>1, <2>7 DEF Keep
    <3> QED
      BY <2>4, <2>7, <3>1 DEF Keep, ReturnNothing
  <2> QED
    BY <1>8, <2>5, <2>6, <2>7 DEF ClientHasMessage, m
<1>9. ASSUME NEW p \in Proxies, ClientBlocks(p) \/ ClientUsesErasedQueue(p)
      PROVE  TypeOK'
  BY <1>9 DEF ClientBlocks, ClientUsesErasedQueue, proxyVars, callVars, clientVars
<1>10. CASE UNCHANGED vars
  BY <1>10 DEF vars, proxyVars, callVars, clientVars
<1> QED
  BY <1>1, <1>2, <1>3, <1>4, <1>5, <1>6, <1>7, <1>8, <1>9, <1>10 DEF Next, CallStep

(* No step leaves a thread waiting for a message that its object keeps. *)
LEMMA WaitsStep ==
  ASSUME TypeOK, NeverWaitsForKept, [Next]_vars
  PROVE  NeverWaitsForKept'
<1> DEFINE Clear(q) ==
      call[q] \in {"get", "blocked", "dangling"} =>
        \A i \in DOMAIN message_queue[q] : ~Matches(message_queue[q][i], wanted[q])
<1> SUFFICES ASSUME NEW q \in Proxies PROVE Clear(q)'
  BY DEF NeverWaitsForKept, Matches
<1>0. Clear(q)
  BY DEF NeverWaitsForKept
<1> USE DEF Matches
<1>a. ASSUME call'[q] = call[q], wanted'[q] = wanted[q],
             message_queue'[q] = message_queue[q]
      PROVE  Clear(q)'
  BY <1>0, <1>a
<1>1. ASSUME NEW p \in Proxies, Construct(p) \/ ConstructThrows(p)
      PROVE  Clear(q)'
  BY <1>1, <1>a DEF Construct, Subscribed, ConstructThrows, callVars
<1>2. ASSUME NEW p \in Proxies, Destroy(p)
      PROVE  Clear(q)'
  <2>1. CASE q = p
    BY <1>2, <2>1 DEF Destroy, Unsubscribe, TypeOK
  <2>2. CASE q # p
    <3>1. message_queue'[q] = message_queue[q] /\ wanted' = wanted
      BY <1>2, <2>2 DEF Destroy, Unsubscribe, TypeOK
    <3>2. call'[q] = call[q] \/ call[q] = "blocked"
      BY <1>2 DEF Destroy, Unsubscribe
    <3> QED
      BY <1>0, <3>1, <3>2
  <2> QED
    BY <2>1, <2>2
<1>3. ASSUME NEW p \in Proxies, NEW r \in Proxies, Move(p, r)
      PROVE  Clear(q)'
  <2>1. call' = call /\ wanted' = wanted
    BY <1>3 DEF Move, callVars
  <2>2. call[r] = "idle" /\ call[p] = "idle"
    BY <1>3 DEF Move, TypeOK, Alive
  <2>3. q # r /\ q # p => message_queue'[q] = message_queue[q]
    BY <1>3 DEF Move, TypeOK
  <2> QED
    BY <2>1, <2>2, <2>3, <1>a
<1>4. ASSUME NEW p \in Proxies, NEW r \in Requests, Ask(p, r)
      PROVE  Clear(q)'
  <2>1. CASE q = p
    BY <1>4, <2>1 DEF Ask, TypeOK
  <2>2. CASE q # p
    BY <1>4, <2>2, <1>a DEF Ask, TypeOK, proxyVars
  <2> QED
    BY <2>1, <2>2
<1>5. ASSUME NEW c \in Contents \cup {Undecodable}, Arrive(c)
      PROVE  Clear(q)'
  BY <1>5, <1>a DEF Arrive, proxyVars, callVars
<1>6. ASSUME NEW p \in Proxies, CallStep(p)
      PROVE  Clear(q)'
  <2>1. CASE q # p
    <3>1. call'[q] = call[q] /\ wanted'[q] = wanted[q]
      BY <1>6, <2>1 DEF CallStep, SearchMessageQueue, NegativeTimeout, ClientHasMessage,
         ClientBlocks, ClientReturnsNothing, ClientUsesErasedQueue, Return,
         ReturnNothing, EndCall, Keep, callVars, TypeOK
    <3>2. message_queue'[q] = message_queue[q]
      BY <1>6, <2>1 DEF CallStep, SearchMessageQueue, NegativeTimeout, ClientHasMessage,
         ClientBlocks, ClientReturnsNothing, ClientUsesErasedQueue,
         Keep, proxyVars, TypeOK
    <3> QED
      BY <3>1, <3>2, <1>a
  <2>2. CASE q = p
    <3>1. CASE call'[p] = "idle"
      BY <2>2, <3>1
    <3>2. CASE SearchMessageQueue(p) /\ call'[p] # "idle"
      BY <2>2, <3>2 DEF SearchMessageQueue, Return, EndCall, TypeOK
    <3>3. CASE ClientHasMessage(p) /\ call'[p] # "idle"
      <4> DEFINE m == Head(queue)
      <4>1. /\ ~Matches(m, wanted[p])
            /\ message_queue'[p] = Append(message_queue[p], m)
            /\ wanted'[p] = wanted[p]
        BY <3>3 DEF ClientHasMessage, Keep, Return, ReturnNothing, EndCall, TypeOK
      <4>2. m \in Message
        BY <3>3, QueueTail DEF ClientHasMessage
      <4>3. message_queue[p] \in Seq(Message)
        BY DEF TypeOK
      <4>4. call[p] \in {"get", "blocked", "dangling"}
        BY <3>3 DEF ClientHasMessage
      <4> HIDE DEF m
      <4>5. \A i \in DOMAIN message_queue'[p] :
              \/ i \in DOMAIN message_queue[p] /\ message_queue'[p][i] = message_queue[p][i]
              \/ message_queue'[p][i] = m
        BY <4>1, <4>2, <4>3
      <4> QED
        BY <1>0, <2>2, <4>1, <4>4, <4>5
    <3>4. CASE ClientBlocks(p)
      BY <1>0, <2>2, <3>4 DEF ClientBlocks, proxyVars
    <3>5. CASE ClientUsesErasedQueue(p)
      BY <1>0, <2>2, <3>5 DEF ClientUsesErasedQueue, proxyVars, callVars
    <3>6. CASE NegativeTimeout(p) \/ ClientReturnsNothing(p)
      <4>1. call'[p] = "idle"
        BY <3>6 DEF NegativeTimeout, ClientReturnsNothing, ReturnNothing, EndCall, TypeOK
      <4> QED
        BY <2>2, <4>1
    <3> QED
      BY <1>6, <3>1, <3>2, <3>3, <3>4, <3>5, <3>6 DEF CallStep
  <2> QED
    BY <2>1, <2>2
<1>7. CASE UNCHANGED vars
  BY <1>7, <1>a DEF vars, proxyVars, callVars
<1> QED
  BY <1>1, <1>2, <1>3, <1>4, <1>5, <1>6, <1>7 DEF Next
-----------------------------------------------------------------------------
(* Steps that leave what is kept, queued and returned alone. *)
LEMMA OrderFrame ==
  ASSUME TypeOK, QueueOrder, KeptOrder,
         UNCHANGED <<message_queue, queue, arrived, last>>
  PROVE  /\ QueueOrder' /\ KeptOrder'
         /\ \A p \in Proxies, c \in Contents : last'[p][c] >= last[p][c]
<1>1. QueueOrder' /\ KeptOrder'
  BY DEF QueueOrder, KeptOrder
<1>2. \A p \in Proxies, c \in Contents : last[p][c] \in Nat
  BY DEF TypeOK
<1> QED
  BY <1>1, <1>2

(* Destroying an object leaves the orders of what is queued and kept. *)
LEMMA OrderDestroy ==
  ASSUME TypeOK, QueueOrder, KeptOrder, NEW p \in Proxies, Destroy(p)
  PROVE  /\ QueueOrder' /\ KeptOrder'
         /\ \A q \in Proxies, c \in Contents : last'[q][c] >= last[q][c]
<1>1. queue' = <<>> /\ last' = last /\ arrived' = arrived
  BY DEF Destroy, Unsubscribe
<1>2. DOMAIN queue' = {}
  BY <1>1
<1>3. \A q \in Proxies :
        message_queue'[q] = message_queue[q] \/ message_queue'[q] = <<>>
  BY DEF Destroy, Unsubscribe, TypeOK
<1>4. QueueOrder'
  BY <1>1, <1>2 DEF QueueOrder
<1>5. KeptOrder'
  <2> SUFFICES ASSUME NEW q \in Proxies
               PROVE  /\ \A i, j \in DOMAIN message_queue'[q] :
                           i < j => message_queue'[q][i].id < message_queue'[q][j].id
                      /\ \A i \in DOMAIN message_queue'[q] :
                           /\ message_queue'[q][i].content \in Contents
                           /\ message_queue'[q][i].id <= arrived'
                           /\ last'[q][message_queue'[q][i].content] < message_queue'[q][i].id
    BY <1>2 DEF KeptOrder
  <2>1. CASE message_queue'[q] = <<>>
    BY <2>1
  <2>2. CASE message_queue'[q] = message_queue[q]
    BY <1>1, <2>2 DEF KeptOrder
  <2> QED
    BY <1>3, <2>1, <2>2
<1>6. \A q \in Proxies, c \in Contents : last[q][c] \in Nat
  BY DEF TypeOK
<1> QED
  BY <1>1, <1>4, <1>5, <1>6

(* A move takes the kept messages along in their order. *)
LEMMA OrderMove ==
  ASSUME TypeOK, QueueOrder, KeptOrder, Fresh,
         NEW p \in Proxies, NEW q \in Proxies, Move(p, q)
  PROVE  /\ QueueOrder' /\ KeptOrder'
         /\ \A r \in Proxies, c \in Contents : last'[r][c] >= last[r][c]
<1>1. queue' = queue /\ arrived' = arrived /\ p # q
  BY DEF Move, clientVars, Alive
<1>2. \A r \in Proxies :
        \/ message_queue'[r] = message_queue[r] /\ last'[r] = last[r]
        \/ message_queue'[r] = <<>> /\ last'[r] = last[r]
        \/ r = q /\ message_queue'[r] = message_queue[p] /\ last'[r] = last[p]
  BY <1>1 DEF Move, TypeOK
<1>3. \A c \in Contents : last[q][c] = 0
  BY DEF Move, Fresh
<1>4. \A r \in Proxies, c \in Contents : last[r][c] \in Nat
  BY DEF TypeOK
<1>5. QueueOrder'
  BY <1>1, <1>2 DEF QueueOrder
<1>6. KeptOrder'
  <2> SUFFICES ASSUME NEW r \in Proxies
               PROVE  /\ \A i, j \in DOMAIN message_queue'[r] :
                           i < j => message_queue'[r][i].id < message_queue'[r][j].id
                      /\ \A i \in DOMAIN message_queue'[r] :
                           /\ message_queue'[r][i].content \in Contents
                           /\ message_queue'[r][i].id <= arrived'
                           /\ last'[r][message_queue'[r][i].content] < message_queue'[r][i].id
                      /\ \A i \in DOMAIN message_queue'[r], j \in DOMAIN queue' :
                           message_queue'[r][i].id < queue'[j].id
    BY DEF KeptOrder
  <2>1. CASE message_queue'[r] = <<>>
    BY <2>1
  <2>2. CASE message_queue'[r] = message_queue[r] /\ last'[r] = last[r]
    BY <1>1, <2>2 DEF KeptOrder
  <2>3. CASE message_queue'[r] = message_queue[p] /\ last'[r] = last[p]
    BY <1>1, <2>3 DEF KeptOrder
  <2> QED
    BY <1>2, <2>1, <2>2, <2>3
<1> QED
  BY <1>2, <1>3, <1>4, <1>5, <1>6

(* A message that arrives is behind everything that is queued or kept. *)
LEMMA OrderArrive ==
  ASSUME TypeOK, QueueOrder, KeptOrder, NEW c \in Contents \cup {Undecodable}, Arrive(c)
  PROVE  /\ QueueOrder' /\ KeptOrder'
         /\ \A p \in Proxies, d \in Contents : last'[p][d] >= last[p][d]
<1>1. /\ message_queue' = message_queue /\ last' = last /\ arrived' = arrived + 1
      /\ arrived \in Nat /\ queue \in Seq(Message)
  BY DEF Arrive, proxyVars, TypeOK
<1>2. \A j \in DOMAIN queue' :
        \/ j \in DOMAIN queue /\ queue'[j] = queue[j] /\ j <= Len(queue)
        \/ j = Len(queue) + 1 /\ queue'[j].id = arrived + 1
  <2>1. CASE queue' = queue
    BY <1>1, <2>1
  <2>2. CASE queue' = Append(queue, [id |-> arrived + 1, content |-> c])
    BY <1>1, <2>2
  <2> QED
    BY <2>1, <2>2 DEF Arrive
<1>3. \A p \in Proxies, d \in Contents : last[p][d] \in Nat
  BY DEF TypeOK
<1>4. \A i \in DOMAIN queue : queue[i].id \in Nat /\ i \in Nat /\ i <= Len(queue)
  <2>1. \A i \in DOMAIN queue : queue[i] \in Message /\ i \in Nat /\ i <= Len(queue)
    BY <1>1
  <2> QED
    BY <2>1 DEF Message
<1>5. \A p \in Proxies : \A i \in DOMAIN message_queue[p] : message_queue[p][i].id \in Nat
  <2>1. \A p \in Proxies : \A i \in DOMAIN message_queue[p] : message_queue[p][i] \in Message
    BY DEF TypeOK
  <2> QED
    BY <2>1 DEF Message
<1>6. Len(queue) \in Nat
  BY <1>1
<1>7. QueueOrder'
  <2>1. \A i, j \in DOMAIN queue' : i < j => queue'[i].id < queue'[j].id
    BY <1>1, <1>2, <1>4, <1>6 DEF QueueOrder
  <2>2. \A i \in DOMAIN queue' : queue'[i].id <= arrived'
    BY <1>1, <1>2, <1>4 DEF QueueOrder
  <2>3. \A p \in Proxies, d \in Contents : last'[p][d] <= arrived'
    BY <1>1, <1>3 DEF QueueOrder
  <2>4. \A p \in Proxies, d \in Contents, i \in DOMAIN queue' : last'[p][d] < queue'[i].id
    BY <1>1, <1>2, <1>3 DEF QueueOrder
  <2> QED
    BY <2>1, <2>2, <2>3, <2>4 DEF QueueOrder
<1>8. KeptOrder'
  <2> SUFFICES ASSUME NEW p \in Proxies
               PROVE  /\ \A i \in DOMAIN message_queue[p] :
                           message_queue[p][i].id <= arrived + 1
                      /\ \A i \in DOMAIN message_queue[p], j \in DOMAIN queue' :
                           message_queue[p][i].id < queue'[j].id
    BY <1>1 DEF KeptOrder
  <2>1. \A i \in DOMAIN message_queue[p] :
          message_queue[p][i].id <= arrived /\ message_queue[p][i].id \in Nat
    BY <1>5 DEF KeptOrder
  <2> QED
    BY <1>1, <1>2, <2>1 DEF KeptOrder
<1> QED
  BY <1>1, <1>3, <1>7, <1>8

(* Taking a kept message takes the oldest of its content. *)
LEMMA OrderSearch ==
  ASSUME TypeOK, QueueOrder, KeptOrder, NEW p \in Proxies, SearchMessageQueue(p)
  PROVE  /\ QueueOrder' /\ KeptOrder'
         /\ \A q \in Proxies, c \in Contents : last'[q][c] >= last[q][c]
<1>1. queue' = queue /\ arrived' = arrived
  BY DEF SearchMessageQueue, clientVars
<1>2. CASE UNCHANGED <<message_queue, last>>
  BY <1>1, <1>2, OrderFrame
<1>3. ASSUME NEW i \in DOMAIN message_queue[p], FirstMatch(p, i),
             message_queue' = [message_queue EXCEPT ![p] = RemoveAt(@, i)],
             Return(p, message_queue[p][i])
      PROVE  /\ QueueOrder' /\ KeptOrder'
             /\ \A q \in Proxies, c \in Contents : last'[q][c] >= last[q][c]
  <2> DEFINE s == message_queue[p]
             r == RemoveAt(s, i)
             m == s[i]
  <2>1. /\ m \in Message
        /\ \A j \in DOMAIN r :
             LET k == IF j < i THEN j ELSE j + 1
             IN  k \in DOMAIN s /\ k # i /\ r[j] = s[k]
        /\ \A j, k \in DOMAIN r : j < k =>
             (IF j < i THEN j ELSE j + 1) < (IF k < i THEN k ELSE k + 1)
    BY KeptRest
  <2>2. /\ \A j, k \in DOMAIN s : j < k => s[j].id < s[k].id
        /\ \A j \in DOMAIN s : /\ s[j].content \in Contents
                               /\ s[j].id <= arrived
                               /\ last[p][s[j].content] < s[j].id
        /\ \A j \in DOMAIN s, k \in DOMAIN queue : s[j].id < queue[k].id
    BY DEF KeptOrder
  <2>3. /\ \A j \in DOMAIN s : s[j] \in Message
        /\ DOMAIN s \subseteq Nat
    BY DEF TypeOK
  <2>4. \A j \in DOMAIN s : s[j].id \in Nat
    BY <2>3 DEF Message
  <2>5. i \in DOMAIN s
    OBVIOUS
  <2>6. \A j \in DOMAIN s : j < i => s[j].content # m.content
    <3> SUFFICES ASSUME NEW j \in DOMAIN s, j < i, s[j].content = m.content
                 PROVE  FALSE
      OBVIOUS
    <3>1. s \in Seq(Message) /\ DOMAIN s = 1..Len(s) /\ Len(s) \in Nat
      BY DEF TypeOK
    <3>2. j \in 1..(i - 1)
      BY <3>1, <2>5
    <3> QED
      BY <1>3, <3>2 DEF FirstMatch, Matches
  <2>7. message_queue'[p] = r
    BY <1>3 DEF TypeOK
  <2>8. \A q \in Proxies : q # p => message_queue'[q] = message_queue[q] /\ last'[q] = last[q]
    BY <1>3 DEF TypeOK, Return
  <2>9. \A c \in Contents : last'[p][c] = IF c = m.content THEN m.id ELSE last[p][c]
    BY <1>3 DEF TypeOK, Return
  <2>10. \A q \in Proxies, c \in Contents : last[q][c] \in Nat
    BY DEF TypeOK
  <2>11. \A q \in Proxies, c \in Contents : last'[q][c] >= last[q][c]
    BY <2>2, <2>4, <2>5, <2>8, <2>9, <2>10
  <2> HIDE DEF s, r, m
  <2>12. QueueOrder'
    <3>1. \A q \in Proxies, c \in Contents : last'[q][c] <= arrived
      BY <2>2, <2>5, <2>8, <2>9 DEF QueueOrder, m
    <3>2. \A q \in Proxies, c \in Contents, j \in DOMAIN queue : last'[q][c] < queue[j].id
      BY <2>2, <2>5, <2>8, <2>9 DEF QueueOrder, m
    <3> QED
      BY <1>1, <3>1, <3>2 DEF QueueOrder
  <2>13. /\ \A j, k \in DOMAIN r : j < k => r[j].id < r[k].id
         /\ \A j \in DOMAIN r : /\ r[j].content \in Contents
                                /\ r[j].id <= arrived
                                /\ last'[p][r[j].content] < r[j].id
         /\ \A j \in DOMAIN r, k \in DOMAIN queue : r[j].id < queue[k].id
    <3>1. \A j, k \in DOMAIN r : j < k => r[j].id < r[k].id
      BY <2>1, <2>2
    <3> SUFFICES ASSUME NEW j \in DOMAIN r
                 PROVE  /\ r[j].content \in Contents
                        /\ r[j].id <= arrived
                        /\ last'[p][r[j].content] < r[j].id
                        /\ \A k \in DOMAIN queue : r[j].id < queue[k].id
      BY <3>1
    <3>2. PICK k \in DOMAIN s : k # i /\ r[j] = s[k]
      BY <2>1
    <3>3. last'[p][s[k].content] < s[k].id
      <4>1. CASE s[k].content = m.content
        <5>1. i < k
          BY <2>3, <2>5, <2>6, <3>2, <4>1
        <5> QED
          BY <2>2, <2>5, <2>9, <4>1, <5>1 DEF m
      <4>2. CASE s[k].content # m.content
        BY <2>2, <2>9, <4>2
      <4> QED
        BY <4>1, <4>2
    <3> QED
      BY <2>2, <3>2, <3>3
  <2>14. KeptOrder'
    <3> SUFFICES ASSUME NEW q \in Proxies
                 PROVE  /\ \A j, k \in DOMAIN message_queue'[q] :
                             j < k => message_queue'[q][j].id < message_queue'[q][k].id
                        /\ \A j \in DOMAIN message_queue'[q] :
                             /\ message_queue'[q][j].content \in Contents
                             /\ message_queue'[q][j].id <= arrived'
                             /\ last'[q][message_queue'[q][j].content] < message_queue'[q][j].id
                        /\ \A j \in DOMAIN message_queue'[q], k \in DOMAIN queue' :
                             message_queue'[q][j].id < queue'[k].id
      BY DEF KeptOrder
    <3>1. CASE q = p
      BY <1>1, <2>7, <2>13, <3>1
    <3>2. CASE q # p
      BY <1>1, <2>8, <3>2 DEF KeptOrder
    <3> QED
      BY <3>1, <3>2
  <2> QED
    BY <2>11, <2>12, <2>14
<1> QED
  BY <1>2, <1>3 DEF SearchMessageQueue

(* Taking a message from the queue, or keeping it for another request,     *)
(* leaves what is kept in the order of arrival.                            *)
LEMMA OrderHasMessage ==
  ASSUME TypeOK, NeverWaitsForKept, QueueOrder, KeptOrder,
         NEW p \in Proxies, ClientHasMessage(p)
  PROVE  /\ QueueOrder' /\ KeptOrder'
         /\ \A q \in Proxies, c \in Contents : last'[q][c] >= last[q][c]
<1> DEFINE m == Head(queue)
           t == Tail(queue)
<1>1. queue # <<>> /\ queue' = t /\ arrived' = arrived
  BY DEF ClientHasMessage
<1>2. /\ m \in Message /\ m = queue[1] /\ 1 \in DOMAIN queue
      /\ \A i \in DOMAIN t : i + 1 \in DOMAIN queue /\ 1 < i + 1 /\ t[i] = queue[i + 1]
  BY <1>1, QueueTail
<1>3. /\ \A i, j \in DOMAIN queue : i < j => queue[i].id < queue[j].id
      /\ \A i \in DOMAIN queue : queue[i].id <= arrived
      /\ \A q \in Proxies, c \in Contents : last[q][c] <= arrived
      /\ \A q \in Proxies, c \in Contents, i \in DOMAIN queue : last[q][c] < queue[i].id
  BY DEF QueueOrder
<1>4. DOMAIN t \subseteq Nat /\ m.id \in Nat
  <2>1. t \in Seq(Message)
    BY <1>1, QueueTail
  <2> QED
    BY <1>2, <2>1 DEF Message
<1>5. \A q \in Proxies, c \in Contents : last[q][c] \in Nat
  BY DEF TypeOK
<1> HIDE DEF m, t
<1>6. /\ \A i, j \in DOMAIN t : i < j => t[i].id < t[j].id
      /\ \A i \in DOMAIN t : t[i].id <= arrived /\ m.id < t[i].id
      /\ \A q \in Proxies, c \in Contents, i \in DOMAIN t : last[q][c] < t[i].id
      /\ m.id <= arrived
      /\ \A q \in Proxies, c \in Contents : last[q][c] < m.id
  BY <1>2, <1>3, <1>4
<1>7. \A q \in Proxies : \A i \in DOMAIN message_queue[q] :
        /\ message_queue[q][i].id < m.id
        /\ \A j \in DOMAIN t : message_queue[q][i].id < t[j].id
  BY <1>2 DEF KeptOrder
<1>8. CASE UNCHANGED <<message_queue, last>>
  BY <1>1, <1>3, <1>5, <1>6, <1>7, <1>8 DEF QueueOrder, KeptOrder
<1>9. CASE Matches(m, wanted[p]) /\ Return(p, m) /\ UNCHANGED message_queue
  <2>1. m.content \in Contents
    <3>1. call[p] # "idle"
      BY DEF ClientHasMessage
    <3>2. wanted[p] \in Requests /\ wanted[p] # Undecodable
      BY <3>1, NoneWanted
    <3> QED
      BY <1>2, <1>9, <3>2 DEF Matches, Message
  <2>2. \A q \in Proxies, c \in Contents :
          last'[q][c] = IF q = p /\ c = m.content THEN m.id ELSE last[q][c]
    BY <1>9, <2>1 DEF Return, TypeOK
  <2>3. \A q \in Proxies, c \in Contents :
          /\ last'[q][c] >= last[q][c] /\ last'[q][c] <= arrived
          /\ \A i \in DOMAIN t : last'[q][c] < t[i].id
    BY <1>3, <1>4, <1>5, <1>6, <2>2
  <2>4. QueueOrder'
    BY <1>1, <1>6, <2>3 DEF QueueOrder
  <2>5. KeptOrder'
    <3>1. \A i \in DOMAIN message_queue[p] :
            /\ message_queue[p][i].content \in Contents
            /\ ~Matches(message_queue[p][i], wanted[p])
      BY DEF KeptOrder, NeverWaitsForKept, ClientHasMessage
    <3>2. \A i \in DOMAIN message_queue[p] : message_queue[p][i].content # m.content
      BY <1>9, <3>1, ProxyAssumption DEF Matches
    <3>3. \A q \in Proxies : \A i \in DOMAIN message_queue[q] :
            last'[q][message_queue[q][i].content] = last[q][message_queue[q][i].content]
      BY <2>2, <3>2 DEF KeptOrder
    <3> QED
      BY <1>1, <1>7, <1>9, <3>3 DEF KeptOrder
  <2> QED
    BY <2>3, <2>4, <2>5
<1>10. CASE m.content # Undecodable /\ Keep(p, m)
  <2> DEFINE s == message_queue[p]
             r == Append(s, m)
  <2>1. m.content \in Contents
    BY <1>2, <1>10 DEF Message
  <2>2. last' = last /\ message_queue'[p] = r
    BY <1>10 DEF Keep, ReturnNothing, TypeOK
  <2>3. \A q \in Proxies : q # p => message_queue'[q] = message_queue[q]
    BY <1>10 DEF Keep, TypeOK
  <2>4. s \in Seq(Message) /\ Len(s) \in Nat /\ DOMAIN s = 1..Len(s)
    BY DEF TypeOK
  <2>5. \A j \in DOMAIN r : \/ j \in DOMAIN s /\ r[j] = s[j] /\ j < Len(s) + 1
                            \/ j = Len(s) + 1 /\ r[j] = m
    BY <1>2, <2>4
  <2>6. /\ \A j, k \in DOMAIN s : j < k => s[j].id < s[k].id
        /\ \A j \in DOMAIN s : /\ s[j].content \in Contents
                               /\ s[j].id <= arrived /\ s[j].id < m.id
                               /\ last[p][s[j].content] < s[j].id
                               /\ \A k \in DOMAIN t : s[j].id < t[k].id
    BY <1>7 DEF KeptOrder
  <2> HIDE DEF s, r
  <2>7. \A j, k \in DOMAIN r : j < k => r[j].id < r[k].id
    BY <2>4, <2>5, <2>6
  <2>8. \A j \in DOMAIN r : /\ r[j].content \in Contents
                            /\ r[j].id <= arrived
                            /\ last[p][r[j].content] < r[j].id
                            /\ \A k \in DOMAIN t : r[j].id < t[k].id
    BY <1>6, <2>1, <2>5, <2>6
  <2>9. QueueOrder'
    BY <1>1, <1>3, <1>6, <2>2 DEF QueueOrder
  <2>10. KeptOrder'
    <3> SUFFICES ASSUME NEW q \in Proxies
                 PROVE  /\ \A j, k \in DOMAIN message_queue'[q] :
                             j < k => message_queue'[q][j].id < message_queue'[q][k].id
                        /\ \A j \in DOMAIN message_queue'[q] :
                             /\ message_queue'[q][j].content \in Contents
                             /\ message_queue'[q][j].id <= arrived'
                             /\ last'[q][message_queue'[q][j].content] < message_queue'[q][j].id
                        /\ \A j \in DOMAIN message_queue'[q], k \in DOMAIN queue' :
                             message_queue'[q][j].id < queue'[k].id
      BY DEF KeptOrder
    <3>1. CASE q = p
      BY <1>1, <2>2, <2>7, <2>8, <3>1
    <3>2. CASE q # p
      BY <1>1, <1>7, <2>2, <2>3, <3>2 DEF KeptOrder
    <3> QED
      BY <3>1, <3>2
  <2> QED
    BY <1>5, <2>2, <2>9, <2>10
<1> QED
  BY <1>8, <1>9, <1>10 DEF ClientHasMessage, ReturnNothing, m

(* Every step keeps the order, and no object goes back within a content. *)
LEMMA OrderStep ==
  ASSUME IInv, [Next]_vars
  PROVE  /\ QueueOrder' /\ KeptOrder'
         /\ \A p \in Proxies, c \in Contents : last'[p][c] >= last[p][c]
<1> USE DEF IInv
<1>1. ASSUME NEW p \in Proxies,
             \/ Construct(p) \/ ConstructThrows(p) \/ NegativeTimeout(p)
             \/ ClientBlocks(p) \/ ClientReturnsNothing(p) \/ ClientUsesErasedQueue(p)
      PROVE  UNCHANGED <<message_queue, queue, arrived, last>>
  BY <1>1 DEF Construct, Subscribed, ConstructThrows, NegativeTimeout, ClientBlocks,
     ClientReturnsNothing, ClientUsesErasedQueue, ReturnNothing, proxyVars, clientVars
<1>2. ASSUME NEW p \in Proxies, NEW r \in Requests, Ask(p, r)
      PROVE  UNCHANGED <<message_queue, queue, arrived, last>>
  BY <1>2 DEF Ask, proxyVars, clientVars
<1>3. CASE UNCHANGED vars
  BY <1>3, OrderFrame DEF vars, proxyVars, clientVars
<1> QED
  BY <1>1, <1>2, <1>3, OrderFrame, OrderDestroy, OrderMove, OrderArrive, OrderSearch,
     OrderHasMessage DEF Next, CallStep

(* No step makes an object that was never constructed have returned        *)
(* anything.                                                               *)
LEMMA FreshStep ==
  ASSUME TypeOK, Fresh, [Next]_vars
  PROVE  Fresh'
<1> SUFFICES ASSUME NEW q \in Proxies, status'[q] = "unborn"
             PROVE  \A c \in Contents : last'[q][c] = 0
  BY DEF Fresh
<1> USE DEF TypeOK, Fresh, Alive
<1>1. ASSUME NEW p \in Proxies, Construct(p) \/ ConstructThrows(p) \/ Destroy(p)
      PROVE  status[q] = "unborn" /\ last'[q] = last[q]
  BY <1>1 DEF Construct, Subscribed, ConstructThrows, Destroy, Unsubscribe
<1>2. ASSUME NEW p \in Proxies, NEW r \in Proxies, Move(p, r)
      PROVE  status[q] = "unborn" /\ last'[q] = last[q]
  BY <1>2 DEF Move
<1>3. ASSUME NEW p \in Proxies, NEW r \in Requests, Ask(p, r)
      PROVE  status[q] = "unborn" /\ last'[q] = last[q]
  BY <1>3 DEF Ask, proxyVars
<1>4. ASSUME NEW c \in Contents \cup {Undecodable}, Arrive(c)
      PROVE  status[q] = "unborn" /\ last'[q] = last[q]
  BY <1>4 DEF Arrive, proxyVars
<1>5. ASSUME NEW p \in Proxies, CallStep(p)
      PROVE  status[q] = "unborn" /\ last'[q] = last[q]
  <2>1. status' = status
    BY <1>5 DEF CallStep, SearchMessageQueue, NegativeTimeout, ClientHasMessage,
       ClientBlocks, ClientReturnsNothing, ClientUsesErasedQueue, proxyVars
  <2>2. call[p] # "idle"
    BY <1>5 DEF CallStep, SearchMessageQueue, NegativeTimeout, ClientHasMessage,
       ClientBlocks, ClientReturnsNothing, ClientUsesErasedQueue
  <2>3. q # p
    BY <2>1, <2>2
  <2> QED
    BY <1>5, <2>1, <2>3 DEF CallStep, SearchMessageQueue, NegativeTimeout,
       ClientHasMessage, ClientBlocks, ClientReturnsNothing, ClientUsesErasedQueue,
       Return, ReturnNothing, Keep
<1>6. CASE UNCHANGED vars
  BY <1>6 DEF vars, proxyVars
<1> QED
  BY <1>1, <1>2, <1>3, <1>4, <1>5, <1>6 DEF Next

(* Every step keeps an object that has never shared the Client alone and   *)
(* subscribed.                                                             *)
LEMMA UnsharedStep ==
  ASSUME TypeOK, Unshared, [Next]_vars
  PROVE  Unshared'
<1> USE DEF TypeOK, Unshared, Alive
<1>1. ASSUME NEW p \in Proxies, Construct(p)
      PROVE  Unshared'
  BY <1>1 DEF Construct, Subscribed
<1>2. ASSUME NEW p \in Proxies, ConstructThrows(p)
      PROVE  Unshared'
  BY <1>2 DEF ConstructThrows
<1>3. ASSUME NEW p \in Proxies, Destroy(p)
      PROVE  Unshared'
  <2> SUFFICES ASSUME ~shared PROVE lost' = {} /\ Alive' = {}
    BY <1>3 DEF Destroy, Unsubscribe
  <2>1. Alive = {p}
    BY <1>3 DEF Destroy, Unsubscribe
  <2>2. lost' = {}
    BY <1>3, <2>1 DEF Destroy, Unsubscribe
  <2>3. \A q \in Proxies : status'[q] # "alive"
    BY <1>3, <2>1 DEF Destroy, Unsubscribe
  <2> QED
    BY <2>2, <2>3
<1>4. ASSUME NEW p \in Proxies, NEW q \in Proxies, Move(p, q)
      PROVE  Unshared'
  BY <1>4 DEF Move
<1>5. ASSUME NEW p \in Proxies, NEW r \in Requests, Ask(p, r)
      PROVE  Unshared'
  BY <1>5 DEF Ask, proxyVars, clientVars
<1>6. ASSUME NEW c \in Contents \cup {Undecodable}, Arrive(c)
      PROVE  Unshared'
  BY <1>6 DEF Arrive, proxyVars
<1>7. ASSUME NEW p \in Proxies, CallStep(p)
      PROVE  Unshared'
  BY <1>7 DEF CallStep, SearchMessageQueue, NegativeTimeout, ClientHasMessage,
     ClientBlocks, ClientReturnsNothing, ClientUsesErasedQueue, proxyVars, clientVars
<1>8. CASE UNCHANGED vars
  BY <1>8 DEF vars, proxyVars, clientVars
<1> QED
  BY <1>1, <1>2, <1>3, <1>4, <1>5, <1>6, <1>7, <1>8 DEF Next

(* The inductive invariant holds always. *)
LEMMA Inductive == Spec => []IInv
<1>1. IInv /\ [Next]_vars => IInv'
  BY TypeStep, WaitsStep, OrderStep, FreshStep, UnsharedStep DEF IInv
<1> QED
  BY <1>1, InitIInv, PTL DEF Spec

(* TypeOK is an invariant. *)
THEOREM Typing == Spec => []TypeOK
  BY Inductive, PTL DEF IInv

(* No call waits for a message that its object has already kept. *)
THEOREM KeptSafety == Spec => []NeverWaitsForKept
  BY Inductive, PTL DEF IInv

(* Messages are lost under an object only if objects shared the Client. *)
THEOREM LossSafety == Spec => []LossNeedsSharing
<1>1. IInv => LossNeedsSharing
  BY DEF IInv, Unshared, LossNeedsSharing
<1> QED
  BY <1>1, Inductive, PTL

(* Every object returns the messages of a content in order of arrival. *)
THEOREM OrderSafety == Spec => OrderPerContent
<1>1. IInv /\ [Next]_vars =>
        [\A p \in Proxies, c \in Contents : last'[p][c] >= last[p][c]]_vars
  BY OrderStep
<1> QED
  BY <1>1, Inductive, PTL DEF Spec, OrderPerContent
-----------------------------------------------------------------------------
(* What the mailbox sees: the object that has the Client for itself. *)
Pending == IF Exclusive THEN message_queue[Owner] \o queue ELSE <<>>
Request == IF Exclusive THEN wanted[Owner] ELSE "closed"
BoxVars == <<Pending, Request>>

(* Used alone, the queue has one living owner. *)
LEMMA OnlyOwner ==
  ASSUME Unshared, Exclusive
  PROVE  Owner \in Alive /\ \A p \in Alive : p = Owner
BY DEF Unshared, Exclusive, Owner

(* The mailbox stays with its object while nobody comes or goes, *)
LEMMA SameOwner ==
  ASSUME status' = status, shared' = shared
  PROVE  Exclusive' = Exclusive /\ Owner' = Owner
<1>1. Alive' = Alive
  BY DEF Alive
<1> QED
  BY <1>1 DEF Exclusive, Owner

(* and is not concerned by what happens while it is closed. *)
LEMMA StaysClosed ==
  ASSUME ~Exclusive, ~Exclusive'
  PROVE  UNCHANGED BoxVars
BY DEF BoxVars, Pending, Request

(* What a message may contain. *)
LEMMA MessageContent ==
  ASSUME NEW m \in Message
  PROVE  m.content \in Contents \cup {Undecodable}
BY DEF Message

(* What waits for the owner: first what it keeps, then what is queued. *)
LEMMA PendingType ==
  ASSUME Exclusive, Unshared, TypeOK
  PROVE  /\ message_queue[Owner] \in Seq(Message) /\ queue \in Seq(Message)
         /\ Pending = message_queue[Owner] \o queue
         /\ Pending \in Seq(Message)
         /\ Len(Pending) = Len(message_queue[Owner]) + Len(queue)
         /\ \A i \in 1..Len(Pending) :
              Pending[i] = IF i <= Len(message_queue[Owner]) THEN message_queue[Owner][i]
                           ELSE queue[i - Len(message_queue[Owner])]
<1>1. message_queue[Owner] \in Seq(Message) /\ queue \in Seq(Message)
  BY OnlyOwner DEF TypeOK, Alive
<1>2. Pending = message_queue[Owner] \o queue
  BY DEF Pending
<1> QED
  BY <1>1, <1>2, ConcatProperties

(* The mailbox removes as the code does. *)
LEMMA SameRemoveAt ==
  ASSUME NEW s, NEW i
  PROVE  Box!RemoveAt(s, i) = RemoveAt(s, i)
  BY DEF Box!RemoveAt, RemoveAt

(* The abstract specification means the same front and last. *)
LEMMA SameFrontLast ==
  ASSUME NEW s
  PROVE  Box!Front(s) = Front(s) /\ Box!Last(s) = Last(s)
  BY DEF Box!Front, Front, Box!Last, Last

(* The initial states map to an empty mailbox. *)
LEMMA BoxInit == ASSUME Init PROVE Box!Init
<1>1. ~Exclusive
  BY DEF Init, Exclusive, Alive
<1> QED
  BY <1>1 DEF Box!Init

(* The view of a step in which nobody comes or goes. *)
LEMMA View ==
  ASSUME Exclusive, Unshared, TypeOK, status' = status, shared' = shared
  PROVE  /\ Owner \in Proxies
         /\ Request = wanted[Owner] /\ Pending = message_queue[Owner] \o queue
         /\ Request' = wanted'[Owner] /\ Pending' = message_queue'[Owner] \o queue'
         /\ call[Owner] # "idle" => Request \in Requests
<1>1. Owner \in Proxies
  BY OnlyOwner DEF Alive
<1>2. call[Owner] # "idle" => wanted[Owner] \in Requests
  BY <1>1 DEF TypeOK
<1>3. Request = wanted[Owner] /\ Pending = message_queue[Owner] \o queue
  BY DEF Request, Pending
<1>4. Request' = wanted'[Owner] /\ Pending' = message_queue'[Owner] \o queue'
  BY SameOwner DEF Request, Pending
<1> QED
  BY <1>1, <1>2, <1>3, <1>4

(* Both specifications have the same requests. *)
LEMMA SameRequests == Box!Requests = Requests
BY DEF Box!Requests, Requests

(* A message found in message_queue_ is the mailbox's answer. *)
LEMMA SearchAnswers ==
  ASSUME Exclusive, Unshared, TypeOK, SearchMessageQueue(Owner)
  PROVE  Box!Answer \/ UNCHANGED BoxVars
<1> DEFINE s == message_queue[Owner]
<1>1. queue' = queue /\ call[Owner] # "idle"
  BY DEF SearchMessageQueue, clientVars
<1>v. status' = status /\ shared' = shared
  BY DEF SearchMessageQueue
<1>2. Request \in Requests
  BY <1>1, <1>v, View
<1>3. CASE UNCHANGED <<wanted, message_queue, last>>
  BY <1>1, <1>3, <1>v, View DEF BoxVars
<1>4. ASSUME NEW i \in DOMAIN s, FirstMatch(Owner, i),
             message_queue' = [message_queue EXCEPT ![Owner] = RemoveAt(@, i)],
             Return(Owner, s[i])
      PROVE  Box!Answer
  <2>1. /\ s \in Seq(Message) /\ queue \in Seq(Message)
        /\ Len(Pending) = Len(s) + Len(queue)
        /\ \A j \in 1..Len(s) : Pending[j] = s[j]
        /\ i \in 1..Len(s) /\ Len(s) \in Nat /\ Len(queue) \in Nat
    BY PendingType
  <2>2. Pending' = RemoveAt(Pending, i)
    <3>1. message_queue'[Owner] = RemoveAt(s, i)
      BY <1>4, <1>v, View DEF TypeOK
    <3>2. RemoveAt(s \o queue, i) = RemoveAt(s, i) \o queue
      BY <2>1, RemoveAtFirst
    <3> QED
      BY <1>1, <1>v, <3>1, <3>2, View
  <2>3. Request' = "none"
    BY <1>4, <1>v, View DEF Return, EndCall, TypeOK
  <2>4. i \in 1..Len(Pending)
    BY <2>1
  <2>5. /\ Box!Matches(Pending[i], Request)
        /\ \A j \in 1..(i - 1) : ~Box!Matches(Pending[j], Request)
    <3>1. Request = wanted[Owner]
      BY <1>v, View
    <3>2. Pending[i] = s[i] /\ \A j \in 1..(i - 1) : Pending[j] = s[j]
      BY <2>1
    <3> QED
      BY <1>4, <3>1, <3>2 DEF FirstMatch, Matches, Box!Matches
  <2> QED
    BY <1>2, <2>2, <2>3, <2>4, <2>5, SameRemoveAt, SameRequests DEF Box!Answer, Pending, Request
<1> QED
  BY <1>3, <1>4 DEF SearchMessageQueue

(* So is the head of the client's queue, nothing kept being a match.  One  *)
(* that cannot be decoded is discarded, one of another content is kept.    *)
LEMMA ClientAnswers ==
  ASSUME Exclusive, Unshared, TypeOK, NeverWaitsForKept, ClientHasMessage(Owner)
  PROVE  Box!Answer \/ Box!Discard \/ Box!Refuse \/ UNCHANGED BoxVars
<1> DEFINE s == message_queue[Owner]
           m == Head(queue)
           k == Len(s) + 1
<1>1. /\ queue # <<>> /\ queue' = Tail(queue)
      /\ call[Owner] \in {"get", "blocked"}
  BY DEF ClientHasMessage
<1>v. status' = status /\ shared' = shared
  BY DEF ClientHasMessage
<1>2. Request \in Requests
  BY <1>1, <1>v, View
<1>a. /\ s \in Seq(Message) /\ queue \in Seq(Message)
      /\ Len(Pending) = Len(s) + Len(queue)
      /\ \A i \in 1..Len(Pending) :
           Pending[i] = IF i <= Len(s) THEN s[i] ELSE queue[i - Len(s)]
  BY PendingType
<1>b. Len(s) \in Nat /\ Len(queue) \in Nat /\ Len(queue) >= 1 /\ m = queue[1]
  BY <1>a, <1>1
<1>3. /\ s \in Seq(Message) /\ queue \in Seq(Message)
      /\ Len(Pending) = Len(s) + Len(queue)
      /\ \A j \in 1..Len(s) : Pending[j] = s[j]
      /\ Len(s) \in Nat /\ Len(queue) \in Nat /\ Len(queue) >= 1
  BY <1>a, <1>b
<1>4. k \in 1..Len(Pending) /\ Pending[k] = m
  <2>1. k \in 1..Len(Pending) /\ ~(k <= Len(s)) /\ k - Len(s) = 1
    BY <1>3
  <2> QED
    BY <1>a, <1>b, <2>1
<1>5. RemoveAt(Pending, k) = s \o Tail(queue)
  BY <1>1, <1>3, RemoveAtSecond, PendingType
<1>6. CASE m.content = Undecodable /\ ReturnNothing(Owner) /\ UNCHANGED message_queue
  <2>1. Pending' = RemoveAt(Pending, k) /\ Request' = "none"
    BY <1>1, <1>5, <1>6, <1>v, View DEF ReturnNothing, EndCall, TypeOK
  <2>2. Box!Discard
    BY <1>2, <1>4, <1>6, <2>1, SameRemoveAt, SameRequests DEF Box!Discard, Pending, Request
  <2> QED
    BY <2>2
<1>7. CASE Matches(m, wanted[Owner]) /\ Return(Owner, m) /\ UNCHANGED message_queue
  <2>1. Pending' = RemoveAt(Pending, k) /\ Request' = "none"
    BY <1>1, <1>5, <1>7, <1>v, View DEF Return, EndCall, TypeOK
  <2>2. Box!Matches(Pending[k], Request)
    BY <1>4, <1>7, <1>v, View DEF Matches, Box!Matches
  <2>3. \A j \in 1..(k - 1) : ~Box!Matches(Pending[j], Request)
    <3>1. \A j \in DOMAIN s : ~Matches(s[j], wanted[Owner])
      BY <1>1, <1>v, View DEF NeverWaitsForKept
    <3>2. \A j \in 1..(k - 1) : j \in DOMAIN s /\ Pending[j] = s[j]
      BY <1>3
    <3> QED
      BY <1>v, <3>1, <3>2, View DEF Matches, Box!Matches
  <2>4. Box!Answer
    BY <1>2, <1>4, <2>1, <2>2, <2>3, SameRemoveAt, SameRequests DEF Box!Answer, Pending, Request
  <2> QED
    BY <2>4
<1>8. CASE Keep(Owner, m)
  <2>1. message_queue'[Owner] = Append(s, m)
    BY <1>8, <1>v, View DEF Keep, TypeOK
  <2>2. Pending' = Pending
    BY <1>1, <1>3, <1>v, <2>1, MoveHead, View
  <2>3. CASE wanted' = wanted
    BY <1>v, <2>2, <2>3, View DEF BoxVars
  <2>4. CASE ReturnNothing(Owner)
    <3>1. Request' = "none"
      BY <1>v, <2>4, View DEF ReturnNothing, EndCall, TypeOK
    <3>2. Box!Refuse
      BY <1>2, <2>2, <3>1, SameRequests DEF Box!Refuse, Pending, Request
    <3> QED
      BY <3>2
  <2> QED
    BY <1>8, <2>3, <2>4 DEF Keep
<1> QED
  BY <1>6, <1>7, <1>8 DEF ClientHasMessage

(* A message that arrives is put into the mailbox. *)
LEMMA ArriveArrives ==
  ASSUME Exclusive, Unshared, TypeOK, NEW c \in Contents \cup {Undecodable}, Arrive(c)
  PROVE  Box!Arrive \/ UNCHANGED BoxVars
<1> DEFINE s == message_queue[Owner]
           m == [id |-> arrived + 1, content |-> c]
<1>1. /\ message_queue' = message_queue /\ wanted' = wanted
      /\ status' = status /\ shared' = shared
  BY DEF Arrive, proxyVars, callVars
<1>2. CASE queue' = queue
  BY <1>1, <1>2, View DEF BoxVars
<1>3. CASE queue' = Append(queue, m)
  <2>1. m \in Message /\ m.content = c
    <3>1. arrived + 1 \in 1..MaxMessages
      BY ProxyAssumption DEF Arrive, TypeOK
    <3> QED
      BY <3>1 DEF Message
  <2>2. Pending' = Append(Pending, m)
    <3>1. s \in Seq(Message) /\ queue \in Seq(Message) /\ Pending = s \o queue
      BY PendingType
    <3>2. Pending' = s \o Append(queue, m)
      BY <1>1, <1>3, View
    <3> HIDE DEF s, m
    <3>3. s \o Append(queue, m) = Append(s \o queue, m)
      BY <2>1, <3>1, AppendSecond
    <3> QED
      BY <3>1, <3>2, <3>3
  <2>3. Pending' # <<>> /\ Front(Pending') = Pending /\ Last(Pending') = m
    BY <2>1, <2>2, PendingType, FrontOfAppend
  <2>4. Request' = Request /\ Request # "closed"
    <3>1. wanted[Owner] \in Requests \cup {"none"}
      BY <1>1, View DEF TypeOK
    <3> QED
      BY <1>1, <3>1, View, ProxyAssumption DEF Requests
  <2>5. Box!Arrive
    BY <2>1, <2>3, <2>4, SameFrontLast DEF Box!Arrive, Box!AllContents, Pending, Request
  <2> QED
    BY <2>5
<1> QED
  BY <1>2, <1>3 DEF Arrive

(* A constructor opens the mailbox, or closes it for the object that had   *)
(* it, and so does the move constructor; a destructor closes it.           *)
LEMMA ComingAndGoing ==
  ASSUME Unshared, TypeOK, TypeOK', NEW p \in Proxies,
         \/ Construct(p) \/ ConstructThrows(p) \/ Destroy(p)
         \/ \E q \in Proxies : Move(p, q)
  PROVE  Box!Open \/ Box!Close \/ UNCHANGED BoxVars
<1>1. CASE Exclusive /\ ~Exclusive'
  <2>1. Request # "closed"
    <3>1. wanted[Owner] \in Requests \cup {"none"}
      BY <1>1, OnlyOwner DEF TypeOK, Alive
    <3> QED
      BY <1>1, <3>1, ProxyAssumption DEF Request, Requests
  <2>2. Request' = "closed" /\ Pending' = <<>>
    BY <1>1 DEF Request, Pending
  <2>3. Box!Close
    BY <2>1, <2>2 DEF Box!Close, Request, Pending
  <2> QED
    BY <2>3
<1>2. CASE ~Exclusive /\ ~Exclusive'
  BY <1>2, StaysClosed
<1>3. CASE ~Exclusive /\ Exclusive'
  <2>1. Owner' \in Alive' /\ Owner' \in Proxies
    BY <1>3 DEF Exclusive, Owner, Alive
  <2>2. message_queue'[Owner'] \in Seq(Message) /\ queue' \in Seq(Message)
    BY <2>1 DEF TypeOK
  <2>3. Pending' = message_queue'[Owner'] \o queue'
    BY <1>3 DEF Pending
  <2>4. Pending' \in Seq(Message)
    BY <2>2, <2>3, ConcatProperties
  <2>5. \A i \in 1..Len(Pending') : Pending'[i].content \in Contents \cup {Undecodable}
    BY <2>4, MessageContent
  <2>6. Construct(p)
    <3>1. CASE ConstructThrows(p)
      BY <1>3, <3>1 DEF ConstructThrows, Exclusive, Alive
    <3>2. CASE Destroy(p)
      BY <1>3, <3>2 DEF Destroy, Unsubscribe, Exclusive, Alive
    <3>3. CASE \E q \in Proxies : Move(p, q)
      BY <1>3, <3>3 DEF Move, Exclusive
    <3> QED
      BY <3>1, <3>2, <3>3
  <2>7. Owner' = p
    <3>1. \A q \in Alive : FALSE
      BY <1>3, <2>6 DEF Construct, Subscribed, Exclusive
    <3> QED
      BY <2>1, <2>6, <3>1 DEF Construct, Subscribed, Alive, TypeOK
  <2>8. Request' = "none"
    <3>1. call'[p] = "idle"
      BY <2>6 DEF Construct, Subscribed, callVars, TypeOK, Alive
    <3>2. wanted'[p] = "none"
      BY <3>1 DEF TypeOK
    <3> QED
      BY <1>3, <2>7, <3>2 DEF Request
  <2>9. Request = "closed"
    BY <1>3 DEF Request
  <2>10. Box!Open
    BY <2>5, <2>8, <2>9 DEF Box!Open, Box!AllContents, Request, Pending
  <2> QED
    BY <2>10
<1>4. CASE Exclusive /\ Exclusive'
  <2>1. ConstructThrows(p)
    <3>1. CASE Construct(p)
      BY <1>4, <3>1 DEF Construct, Subscribed, Exclusive
    <3>2. CASE Destroy(p)
      <4>1. Alive' = {}
        BY <1>4, <3>2, OnlyOwner DEF Destroy, Unsubscribe, Alive, TypeOK
      <4> QED
        BY <1>4, <4>1 DEF Exclusive
    <3>3. CASE \E q \in Proxies : Move(p, q)
      BY <1>4, <3>3 DEF Move, Exclusive
    <3> QED
      BY <3>1, <3>2, <3>3
  <2>2. Alive' = Alive
    BY <2>1 DEF ConstructThrows, Alive, TypeOK
  <2>3. Owner' = Owner
    BY <2>2 DEF Owner
  <2> QED
    BY <1>4, <2>1, <2>3 DEF ConstructThrows, callVars, BoxVars, Pending, Request
<1> QED
  BY <1>1, <1>2, <1>3, <1>4

(* Any other step is one of the owner, of the broker, or concerns nobody. *)
LEMMA BoxStep ==
  ASSUME Unshared, TypeOK, TypeOK', NeverWaitsForKept, [Next]_vars
  PROVE  [Box!Next]_BoxVars
<1>1. ASSUME NEW p \in Proxies,
             \/ Construct(p) \/ ConstructThrows(p) \/ Destroy(p)
             \/ \E q \in Proxies : Move(p, q)
      PROVE  [Box!Next]_BoxVars
  BY <1>1, ComingAndGoing DEF Box!Next
<1>2. ASSUME NEW p \in Proxies, NEW r \in Requests, Ask(p, r)
      PROVE  [Box!Next]_BoxVars
  <2>1. status' = status /\ shared' = shared
    BY <1>2 DEF Ask, proxyVars
  <2>2. CASE ~Exclusive
    BY <2>1, <2>2, SameOwner, StaysClosed
  <2>3. CASE Exclusive
    <3>1. p = Owner
      BY <1>2, <2>3, OnlyOwner DEF Ask
    <3>2. wanted[Owner] = "none" /\ wanted'[Owner] = r
      BY <1>2, <3>1 DEF Ask, TypeOK
    <3>3. message_queue' = message_queue /\ queue' = queue
      BY <1>2 DEF Ask, proxyVars, clientVars
    <3>4. Box!Ask
      BY <2>1, <2>3, <3>2, <3>3, View, SameRequests DEF Box!Ask, Pending, Request
    <3> QED
      BY <3>4 DEF Box!Next
  <2> QED
    BY <2>2, <2>3
<1>3. ASSUME NEW c \in Contents \cup {Undecodable}, Arrive(c)
      PROVE  [Box!Next]_BoxVars
  <2>1. status' = status /\ shared' = shared
    BY <1>3 DEF Arrive, proxyVars
  <2>2. CASE ~Exclusive
    BY <2>1, <2>2, SameOwner, StaysClosed
  <2>3. CASE Exclusive
    BY <1>3, <2>3, ArriveArrives DEF Box!Next
  <2> QED
    BY <2>2, <2>3
<1>4. ASSUME NEW p \in Proxies, CallStep(p)
      PROVE  [Box!Next]_BoxVars
  <2>1. status' = status /\ shared' = shared
    BY <1>4 DEF CallStep, SearchMessageQueue, NegativeTimeout, ClientHasMessage,
       ClientBlocks, ClientReturnsNothing, ClientUsesErasedQueue, proxyVars
  <2>2. CASE ~Exclusive
    BY <2>1, <2>2, SameOwner, StaysClosed
  <2>3. CASE Exclusive
    <3>1. p = Owner
      <4>1. call[p] # "idle"
        BY <1>4 DEF CallStep, SearchMessageQueue, NegativeTimeout, ClientHasMessage,
           ClientBlocks, ClientReturnsNothing, ClientUsesErasedQueue
      <4> QED
        BY <2>3, <4>1, OnlyOwner DEF TypeOK
    <3>2. CASE NegativeTimeout(p) \/ ClientReturnsNothing(p)
      <4>1. call[Owner] # "idle" /\ wanted'[Owner] = "none"
        BY <3>1, <3>2 DEF NegativeTimeout, ClientReturnsNothing, ReturnNothing, EndCall, TypeOK
      <4>2. message_queue' = message_queue /\ queue' = queue
        BY <3>2 DEF NegativeTimeout, ClientReturnsNothing, proxyVars, clientVars
      <4>3. Box!Refuse
        BY <2>1, <2>3, <4>1, <4>2, View, SameRequests DEF Box!Refuse, Pending, Request
      <4> QED
        BY <4>3 DEF Box!Next
    <3>3. CASE ClientBlocks(p) \/ ClientUsesErasedQueue(p)
      <4>1. message_queue' = message_queue /\ queue' = queue /\ wanted' = wanted
        BY <3>3 DEF ClientBlocks, ClientUsesErasedQueue, proxyVars, callVars, clientVars
      <4> QED
        BY <2>1, <2>3, <4>1, View DEF BoxVars
    <3> QED
      BY <1>4, <2>3, <3>1, <3>2, <3>3, SearchAnswers, ClientAnswers DEF CallStep, Box!Next
  <2> QED
    BY <2>2, <2>3
<1>5. CASE UNCHANGED vars
  <2>1. /\ status' = status /\ shared' = shared /\ wanted' = wanted
        /\ message_queue' = message_queue /\ queue' = queue
    BY <1>5 DEF vars, proxyVars, callVars, clientVars
  <2> QED
    BY <2>1, SameOwner DEF BoxVars, Pending, Request
<1> QED
  BY <1>1, <1>2, <1>3, <1>4, <1>5 DEF Next

(* An object that has the Client for itself implements the mailbox, for    *)
(* any number of objects that come and go, until two of them share it.     *)
THEOREM Refinement == Spec => ImplementsMailbox
<1>1. Init => Box!Init
  BY BoxInit
<1>2. IInv /\ IInv' /\ [Next]_vars => [Box!Next]_BoxVars
  BY BoxStep DEF IInv
<1>3. IInv /\ IInv' /\ [Next]_vars =>
        [Box!Next]_<<IF Exclusive THEN message_queue[Owner] \o queue ELSE <<>>,
                     IF Exclusive THEN wanted[Owner] ELSE "closed">>
  BY <1>2 DEF BoxVars, Pending, Request
<1> QED
  BY <1>1, <1>3, Inductive, PTL DEF Spec, ImplementsMailbox, Box!Spec
=============================================================================
