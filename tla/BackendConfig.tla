--------------------------- MODULE BackendConfig ----------------------------
(***************************************************************************)
(* util::BackendConfig (util/include/util/BackendConfig.h) with the file   *)
(* functions of util/src/Protobuf.cpp: a configuration that is effective   *)
(* in memory, persistent in a file and reported to the backend.  Init runs *)
(* on the application's thread; the content callback and the callback of   *)
(* a SENT message run one at a time on the backend client's thread.  The   *)
(* process may be killed between any two steps and started again.          *)
(*                                                                         *)
(* Configurations are numbered in the order in which the backend issued    *)
(* them; 0 is the default one.  ApplyConfig and FetchConfig are abstract   *)
(* in the code: here a configuration is applied as it is, one that is      *)
(* rejected changes nothing, and FetchConfig may fail.                     *)
(***************************************************************************)
EXTENDS Naturals

CONSTANTS MaxConfig,   \* bound: configurations the backend issues
          MaxCrashes   \* bound: times the process is killed

ASSUME ConfigAssumption == MaxConfig \in Nat /\ MaxCrashes \in Nat

VARIABLES
  app,         \* "down", "opened" (in Init), "ready", "destroyed" or "fault"
  current,     \* the effective configuration
  default_msg, \* the default configuration sent by Init: "none" or "pending"
  task,        \* what the backend client's thread runs
  writing,     \* the configuration that task writes or sends
  file,        \* the configuration file
  stored,      \* the configuration in a valid file
  issued,      \* the last configuration the backend issued
  reported,    \* the last configuration the backend was sent
  crashes,
  write_ok,    \* history: what the last WriteConfig returned
  failed,      \* history: the last change in effect did not reach the file
  confirmed    \* history: the default's SENT callback has run to its end

memory == <<app, current, default_msg, task, writing>>
disk == <<file, stored>>
backend == <<issued, reported>>
history == <<write_ok, failed, confirmed>>
vars == <<memory, disk, backend, history, crashes>>

Tasks == {"idle", "sent_open", "sent_flush",
          "content_open", "content_flush", "content_send"}
Files == {"absent", "empty", "corrupt", "valid"}

(* Types, and that a process that is down has nothing running or pending. *)
TypeOK ==
  /\ app = "down" => task = "idle" /\ default_msg = "none"
  /\ app \in {"down", "opened", "ready", "destroyed", "fault"}
  /\ current \in 0..MaxConfig /\ writing \in 0..MaxConfig
  /\ default_msg \in {"none", "pending"}
  /\ task \in Tasks /\ file \in Files
  /\ stored \in 0..MaxConfig /\ issued \in 0..MaxConfig
  /\ reported \in 0..MaxConfig /\ crashes \in 0..MaxCrashes
  /\ write_ok \in BOOLEAN /\ failed \in BOOLEAN /\ confirmed \in BOOLEAN

(* The process has not run yet; the disk may hold an unreadable file. *)
Init ==
  /\ app = "down" /\ current = 0 /\ default_msg = "none"
  /\ task = "idle" /\ writing = 0
  /\ file \in {"absent", "corrupt"} /\ stored = 0
  /\ issued = 0 /\ reported = 0 /\ crashes = 0
  /\ write_ok = TRUE /\ failed = FALSE /\ confirmed = FALSE
-----------------------------------------------------------------------------
(* ReadProtobufMessage has a result.  An empty file is what a message      *)
(* without fields serializes to: it is parsed, and changes nothing when    *)
(* applied.                                                                *)
Readable == file \in {"valid", "empty"}

(* Init reads the file and applies it. *)
InitFromFile ==
  /\ app = "down" /\ Readable
  /\ app' = "opened"
  /\ current' = IF file = "valid" THEN stored ELSE 0
  /\ UNCHANGED <<default_msg, task, writing, disk, backend, history, crashes>>

(* The file is absent or unreadable: the default configuration is sent.    *)
(* FetchConfig, the serialization or publish may fail, and then there is   *)
(* no callback.                                                            *)
InitDefault ==
  /\ app = "down" /\ ~Readable
  /\ app' = "opened" /\ current' = 0
  /\ \/ default_msg' = "pending" /\ reported' = 0
     \/ default_msg' = "none" /\ UNCHANGED reported
  /\ UNCHANGED <<task, writing, disk, issued, history, crashes>>

(* Only now is the content callback added; Init returns true. *)
AddContentCallback ==
  /\ app = "opened"
  /\ app' = "ready"
  /\ UNCHANGED <<current, default_msg, task, writing, disk, backend, history, crashes>>
-----------------------------------------------------------------------------
(* mutant: the default is written whether or not the file exists *)
NeverPersisted == FALSE

Persisted == file # "absent"

(* The backend client reports the default's delivery: a status other than  *)
(* SENT is ignored; a file that exists is left as it is.                   *)
SentCallback ==
  /\ app \in {"opened", "ready"} /\ task = "idle" /\ default_msg = "pending"
  /\ default_msg' = "none"
  /\ \/ UNCHANGED <<task, writing, confirmed>>
     \/ /\ Persisted
        /\ confirmed' = TRUE
        /\ UNCHANGED <<task, writing>>
     \/ /\ ~Persisted
        /\ task' = "sent_open" /\ writing' = 0
        /\ UNCHANGED confirmed
  /\ UNCHANGED <<app, current, disk, backend, write_ok, failed, crashes>>

(* A callback that is under way, or the SENT callback to come, uses the    *)
(* object that is destroyed; one that is under way may also go on.         *)
UseAfterDestruction ==
  /\ app = "destroyed" /\ (default_msg = "pending" \/ task # "idle")
  /\ app' = "fault"
  /\ UNCHANGED <<current, default_msg, task, writing>>
  /\ UNCHANGED <<disk, backend, history, crashes>>

(* mutant: the configuration is reported before it is written *)
ReportFirst(c) ==
  /\ app = "ready" /\ task = "idle"
  /\ c \in {issued, issued + 1} /\ c <= MaxConfig
  /\ issued' = c
  /\ c # current /\ current' = c
  /\ task' = "content_open" /\ writing' = c
  /\ reported' = c
  /\ UNCHANGED <<app, default_msg, disk, history, crashes>>

(* The content callback for configuration c, up to WriteConfig or          *)
(* SendConfig: a message may be undecodable, c may be rejected, and        *)
(* FetchConfig may fail when c is already in effect.                       *)
ContentCallback(c) ==
  /\ app = "ready" /\ task = "idle"
  /\ c \in {issued, issued + 1} /\ c <= MaxConfig
  /\ issued' = c
  /\ \/ UNCHANGED <<current, task, writing, failed>>
     \/ /\ task' = "content_send" /\ writing' = current
        /\ UNCHANGED <<current, failed>>
     \/ /\ c # current /\ current' = c
        /\ \/ task' = "content_open" /\ writing' = c /\ UNCHANGED failed
           \/ failed' = TRUE /\ UNCHANGED <<task, writing>>
  /\ UNCHANGED <<app, default_msg, disk, reported, write_ok, confirmed, crashes>>

AfterWrite == IF task \in {"content_open", "content_flush"}
              THEN "content_send" ELSE "idle"

(* WriteProtobufMessage opens the file, which truncates it, or cannot. *)
OpenFile ==
  /\ app # "fault" /\ task \in {"sent_open", "content_open"}
  /\ \/ /\ task' = IF task = "sent_open" THEN "sent_flush" ELSE "content_flush"
        /\ file' = "empty"
        /\ UNCHANGED <<write_ok, failed, confirmed>>
     \/ /\ task' = AfterWrite
        /\ write_ok' = FALSE /\ failed' = TRUE
        /\ confirmed' = (confirmed \/ task = "sent_open")
        /\ UNCHANGED file
  /\ UNCHANGED <<app, current, default_msg, writing, stored, backend, crashes>>

(* The message is serialized into the stream and reaches the disk when the *)
(* stream is destroyed, after the result is computed.  A large message may *)
(* fail earlier, and then the result says so.                              *)
FlushFile ==
  /\ app # "fault" /\ task \in {"sent_flush", "content_flush"}
  /\ \/ /\ file' = "valid" /\ stored' = writing
        /\ write_ok' = TRUE
        /\ failed' = (failed /\ task = "sent_flush")
     \/ /\ file' \in {"empty", "corrupt"}
        /\ write_ok' \in BOOLEAN /\ failed' = TRUE
        /\ UNCHANGED stored
  /\ task' = AfterWrite
  /\ confirmed' = (confirmed \/ task = "sent_flush")
  /\ UNCHANGED <<app, current, default_msg, writing, backend, crashes>>

(* The content callback reports the configuration, whatever became of the  *)
(* file; publish may refuse it.                                            *)
SendConfig ==
  /\ app # "fault" /\ task = "content_send"
  /\ task' = "idle"
  /\ reported' \in {reported, writing}
  /\ UNCHANGED <<app, current, default_msg, writing, issued, disk, history, crashes>>
-----------------------------------------------------------------------------
(* The destructor clears the content callbacks, not the SENT callback, and *)
(* asks nothing of a callback that is under way.                           *)
Destroy ==
  /\ app = "ready"
  /\ app' = "destroyed"
  /\ UNCHANGED <<current, default_msg, task, writing, disk, backend, history, crashes>>

(* mutant: the client still delivers what the killed process sent *)
StillDelivered == default_msg' = default_msg

Undelivered == default_msg' = "none"

(* The process is killed, and starts again with what is on the disk. *)
Crash ==
  /\ app # "down" /\ crashes < MaxCrashes
  /\ crashes' = crashes + 1
  /\ app' = "down" /\ current' = 0 /\ Undelivered
  /\ task' = "idle" /\ writing' = 0
  /\ failed' = (failed \/ task \in {"sent_flush", "content_flush"})
  /\ confirmed' = FALSE
  /\ UNCHANGED <<disk, backend, write_ok>>

Next ==
  \/ InitFromFile \/ InitDefault \/ AddContentCallback
  \/ SentCallback \/ UseAfterDestruction
  \/ \E c \in 0..MaxConfig : ContentCallback(c)
  \/ OpenFile \/ FlushFile \/ SendConfig
  \/ Destroy \/ Crash

Spec == Init /\ [][Next]_vars
-----------------------------------------------------------------------------
(* Unless persisting failed, a configuration in effect that is not the     *)
(* default one is the one in the file.  It takes that the SENT callback    *)
(* does not overwrite a newer file and that every change is written.       *)
FileFollowsMemory ==
  app = "ready" /\ task = "idle" /\ ~failed /\ current > 0
    => file = "valid" /\ stored = current

(* What the backend was told survives a restart: unless persisting failed, *)
(* no restart brings back a configuration older than the reported one.     *)
ReportSurvivesRestart ==
  app \in {"opened", "ready"} /\ ~failed => current >= reported

(* The doc of Init: an unreadable configuration file is replaced by the    *)
(* default configuration "upon delivery confirmation".                     *)
DefaultIsPersisted ==
  confirmed /\ task = "idle" /\ ~failed => file \in {"valid", "empty"}

(* The doc of WriteProtobufMessage: "True if protobuf messages was         *)
(* successfully written to file."                                          *)
WriteResultIsTrue ==
  [][ /\ task \in {"sent_flush", "content_flush"} /\ app' = app
      /\ write_ok' /\ task' # task
      => file' = "valid" /\ stored' = writing ]_vars
=============================================================================
