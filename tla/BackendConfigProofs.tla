------------------------- MODULE BackendConfigProofs ------------------------
(* Theorems about BackendConfig, for any number of configurations and of    *)
(* restarts.                                                                *)
EXTENDS BackendConfig, TLAPS

(* What a restart would bring back. *)
Durable == IF file = "valid" THEN stored ELSE 0

(* The default is written only while nothing else ever was. *)
DefaultFirst ==
  task \in {"sent_open", "sent_flush"} /\ ~failed => current = 0 /\ reported = 0

(* A content callback writes and sends the configuration in effect, and what *)
(* it writes is the last one issued; a SENT callback writes the default one. *)
WritesCurrent ==
  /\ task \in {"content_open", "content_flush", "content_send"}
       => writing = current
  /\ task \in {"content_open", "content_flush"} => current = issued
  /\ task \in {"sent_open", "sent_flush"} => writing = 0

(* The backend issued whatever is in effect, on the disk or reported. *)
IssuedFirst == current <= issued /\ stored <= issued /\ reported <= issued

(* Whatever is in effect is on the disk, but while it is being written. *)
EffectiveIsDurable ==
  /\ app # "down" /\ ~failed /\ task \in {"idle", "content_send"}
  /\ current > 0
  => file = "valid" /\ stored = current

(* Whatever was reported is on the disk, but while the file is rewritten. *)
ReportedIsDurable ==
  ~failed => /\ task \notin {"content_flush", "sent_flush"} => reported <= Durable
             /\ app # "down" => reported <= current

IInv == /\ TypeOK /\ DefaultFirst /\ WritesCurrent /\ IssuedFirst
        /\ EffectiveIsDurable /\ ReportedIsDurable

(* The inductive invariant holds always. *)
THEOREM Inductive == Spec => []IInv
<1> USE ConfigAssumption
<1> USE DEF TypeOK, DefaultFirst, WritesCurrent, IssuedFirst,
            EffectiveIsDurable, ReportedIsDurable, Durable, Tasks, Files
<1>1. Init => IInv
  <2> SUFFICES ASSUME Init PROVE IInv
    OBVIOUS
  <2>0. write_ok \in BOOLEAN /\ failed \in BOOLEAN /\ confirmed \in BOOLEAN
    BY DEF Init
  <2>1. TypeOK
    BY <2>0 DEF Init
  <2>2. DefaultFirst /\ WritesCurrent /\ IssuedFirst
    BY DEF Init
  <2>3. EffectiveIsDurable
    BY DEF Init
  <2>4. ReportedIsDurable
    BY DEF Init
  <2> QED BY <2>1, <2>2, <2>3, <2>4 DEF IInv
<1>2. IInv /\ [Next]_vars => IInv'
  <2> SUFFICES ASSUME IInv, [Next]_vars PROVE IInv'
    OBVIOUS
  <2> USE DEF IInv, memory, disk, backend, history
  <2>1. CASE InitFromFile
    <3>1. TypeOK'
      BY <2>1 DEF InitFromFile, Readable
    <3>2. DefaultFirst' /\ WritesCurrent' /\ IssuedFirst'
      BY <2>1 DEF InitFromFile, Readable
    <3>3. EffectiveIsDurable'
      BY <2>1 DEF InitFromFile, Readable
    <3>4. ReportedIsDurable'
      BY <2>1 DEF InitFromFile, Readable
    <3> QED BY <3>1, <3>2, <3>3, <3>4
  <2>2. CASE InitDefault
    <3>1. TypeOK'
      BY <2>2 DEF InitDefault, Readable
    <3>2. DefaultFirst' /\ WritesCurrent' /\ IssuedFirst'
      BY <2>2 DEF InitDefault, Readable
    <3>3. EffectiveIsDurable'
      BY <2>2 DEF InitDefault, Readable
    <3>4. ReportedIsDurable'
      BY <2>2 DEF InitDefault, Readable
    <3> QED BY <3>1, <3>2, <3>3, <3>4
  <2>3. CASE AddContentCallback
    BY <2>3 DEF AddContentCallback
  <2>4. CASE SentCallback
    <3>0. write_ok' \in BOOLEAN /\ failed' \in BOOLEAN /\ confirmed' \in BOOLEAN
      BY <2>4 DEF SentCallback, Persisted
    <3>1. TypeOK'
      BY <2>4, <3>0 DEF SentCallback, Persisted
    <3>2. DefaultFirst' /\ WritesCurrent' /\ IssuedFirst'
      BY <2>4 DEF SentCallback, Persisted
    <3>3. EffectiveIsDurable'
      BY <2>4 DEF SentCallback, Persisted
    <3>4. ReportedIsDurable'
      BY <2>4 DEF SentCallback, Persisted
    <3> QED BY <3>1, <3>2, <3>3, <3>4
  <2>5. CASE UseAfterDestruction
    BY <2>5 DEF UseAfterDestruction
  <2>6. ASSUME NEW c \in 0..MaxConfig, ContentCallback(c) PROVE IInv'
    <3>1. TypeOK'
      BY <2>6 DEF ContentCallback
    <3>2. DefaultFirst' /\ WritesCurrent' /\ IssuedFirst'
      BY <2>6 DEF ContentCallback
    <3>3. EffectiveIsDurable'
      BY <2>6 DEF ContentCallback
    <3>4. ReportedIsDurable'
      BY <2>6 DEF ContentCallback
    <3> QED BY <3>1, <3>2, <3>3, <3>4
  <2>7. CASE OpenFile
    <3>1. TypeOK'
      BY <2>7 DEF OpenFile, AfterWrite
    <3>2. DefaultFirst' /\ WritesCurrent' /\ IssuedFirst'
      BY <2>7 DEF OpenFile, AfterWrite
    <3>3. EffectiveIsDurable'
      BY <2>7 DEF OpenFile, AfterWrite
    <3>4. ReportedIsDurable'
      BY <2>7 DEF OpenFile, AfterWrite
    <3> QED BY <3>1, <3>2, <3>3, <3>4
  <2>8. CASE FlushFile
    <3>1. TypeOK'
      BY <2>8 DEF FlushFile, AfterWrite
    <3>2. DefaultFirst' /\ WritesCurrent' /\ IssuedFirst'
      <4>1. /\ task' \in {"content_send", "idle"}
            /\ task' = "content_send" => task = "content_flush"
            /\ stored' \in {stored, writing}
            /\ UNCHANGED <<current, writing, issued, reported>>
        BY <2>8 DEF FlushFile, AfterWrite
      <4>2. writing \in 0..MaxConfig /\ writing <= issued
        BY <2>8 DEF FlushFile
      <4> QED BY <4>1, <4>2
    <3>3. EffectiveIsDurable'
      BY <2>8 DEF FlushFile, AfterWrite
    <3>4. ReportedIsDurable'
      <4> SUFFICES ASSUME ~failed'
                   PROVE  /\ task' \notin {"content_flush", "sent_flush"}
                               => reported' <= Durable'
                          /\ app' # "down" => reported' <= current'
        OBVIOUS
      <4>0. /\ file' = "valid" /\ stored' = writing
            /\ UNCHANGED <<app, current, reported>>
            /\ task = "sent_flush" => ~failed
        BY <2>8 DEF FlushFile
      <4>1. CASE task = "content_flush"
        <5>1. reported <= current /\ writing = current
          BY <4>1
        <5> QED BY <4>0, <5>1
      <4>2. CASE task = "sent_flush"
        <5>1. ~failed /\ reported = 0
          BY <4>0, <4>2
        <5> QED BY <4>0, <5>1
      <4> QED BY <2>8, <4>1, <4>2 DEF FlushFile
    <3> QED BY <3>1, <3>2, <3>3, <3>4
  <2>9. CASE SendConfig
    <3>1. TypeOK'
      BY <2>9 DEF SendConfig
    <3>2. DefaultFirst' /\ WritesCurrent' /\ IssuedFirst'
      BY <2>9 DEF SendConfig
    <3>3. EffectiveIsDurable'
      BY <2>9 DEF SendConfig
    <3>4. ReportedIsDurable'
      BY <2>9 DEF SendConfig
    <3> QED BY <3>1, <3>2, <3>3, <3>4
  <2>10. CASE Destroy
    BY <2>10 DEF Destroy
  <2>11. CASE Crash
    <3>0. write_ok' \in BOOLEAN /\ failed' \in BOOLEAN /\ confirmed' \in BOOLEAN
      BY <2>11 DEF Crash, Undelivered
    <3>1. TypeOK'
      BY <2>11, <3>0 DEF Crash, Undelivered
    <3>2. DefaultFirst' /\ WritesCurrent' /\ IssuedFirst'
      BY <2>11 DEF Crash, Undelivered
    <3>3. EffectiveIsDurable'
      BY <2>11 DEF Crash, Undelivered
    <3>4. ReportedIsDurable'
      BY <2>11 DEF Crash, Undelivered
    <3> QED BY <3>1, <3>2, <3>3, <3>4
  <2>12. CASE UNCHANGED vars
    BY <2>12 DEF vars
  <2> QED BY <2>1, <2>2, <2>3, <2>4, <2>5, <2>6, <2>7, <2>8, <2>9, <2>10,
             <2>11, <2>12 DEF Next
<1> QED BY <1>1, <1>2, PTL DEF Spec

(* Type correctness, and that a process that is down has nothing running   *)
(* or pending: what a killed process sent is never confirmed to the next.  *)
THEOREM Typing == Spec => []TypeOK
<1>1. IInv => TypeOK
  BY DEF IInv
<1> QED BY <1>1, Inductive, PTL

(* Unless persisting failed, the file holds the configuration in effect. *)
THEOREM FileSafety == Spec => []FileFollowsMemory
<1>1. IInv => FileFollowsMemory
  BY DEF IInv, EffectiveIsDurable, FileFollowsMemory
<1> QED BY <1>1, Inductive, PTL

(* Unless persisting failed, a restart never takes back what was reported. *)
THEOREM ReportSafety == Spec => []ReportSurvivesRestart
<1>1. IInv => ReportSurvivesRestart
  BY ConfigAssumption DEF IInv, TypeOK, ReportedIsDurable, ReportSurvivesRestart
<1> QED BY <1>1, Inductive, PTL
=============================================================================
