--------------------------- MODULE PacketCapture ---------------------------
(***************************************************************************)
(* Packets a Windows device captures, from the file they are written to    *)
(* to the panel's database: capture.c (files), the upload job of           *)
(* controller.c, and the panel's idempotent store of captures (store.c).   *)
(* A file is the sequence of its records; its name is the digest of its    *)
(* content, taken as injective, so a file is named by what it holds.       *)
(***************************************************************************)
EXTENDS Naturals, Sequences, FiniteSets

CONSTANTS MaxPackets,    \* packets of a behaviour
          FileRecords,   \* records of a file (file_kb)
          FileLimit,     \* files of the device (1000 in the code)
          ServerLimit,   \* captures the panel keeps of a host (1000 in the code)
          CaptureFaults  \* crashes, failed seals, lost answers, deletions and requests of users

VARIABLES pending,   \* the file being written, NotOpen without one
          parts,     \* unsealed files nobody has open
          files,     \* sealed files
          marks,     \* .uploaded markers
          job,       \* the upload thread
          capturing, \* the service runs
          remove,    \* delete_after_upload
          panel,     \* captures in the panel's database
          nextPacket,
          recorded,  \* packets that reached a file
          discarded, \* packets of files deleted by their owner
          troubles

captureVars == <<pending, parts, files, marks, job, capturing, remove, panel, nextPacket, recorded, discarded, troubles>>

Torn     == 0
NotOpen  == <<Torn>>
NoUpload == [at |-> "idle", file |-> <<>>]
Records(s) == {s[i] : i \in DOMAIN s} \ {Torn}

CaptureInit ==
  /\ pending = NotOpen /\ parts = {} /\ files = {} /\ marks = {} /\ job = NoUpload /\ capturing = TRUE
  /\ remove \in BOOLEAN /\ panel = {} /\ nextPacket = 1 /\ recorded = {} /\ discarded = {} /\ troubles = CaptureFaults

Trouble == troubles > 0 /\ troubles' = troubles - 1
Calm    == UNCHANGED troubles

(* seal_path(): the whole records at the front of the file. *)
Valid(s) ==
  LET good == {n \in 0..Len(s) : \A i \in 1..n : s[i] # Torn} IN
  SubSeq(s, 1, CHOOSE n \in good : \A m \in good : m <= n)

(* A file without a record is deleted, any other renamed to its digest. *)
Sealed(s) == IF Valid(s) = <<>> THEN {} ELSE {Valid(s)}

(* seal(): the open file is closed and sealed; if that fails it stays for the next start. *)
Seal(ok) ==
  IF ok THEN files' = files \cup Sealed(pending) /\ UNCHANGED <<parts, troubles>>
  ELSE parts' = parts \cup {pending} /\ Trouble /\ UNCHANGED files

FullOrOld(expired) == pending # NotOpen /\ (Len(pending) >= FileRecords \/ expired)

(* write_packet(): rotation, the limit of files, then the record; a failed rotation or a full
   store drops the packet. *)
WritePacket(expired, ok) ==
  /\ capturing /\ nextPacket <= MaxPackets /\ nextPacket' = nextPacket + 1
  /\ LET rotates == FullOrOld(expired)
         opens == rotates \/ pending = NotOpen
         room == ok /\ (opens => Cardinality(files' \cup parts') < FileLimit)
     IN /\ rotates \/ ok
        /\ IF rotates THEN Seal(ok) ELSE UNCHANGED <<files, parts, troubles>>
        /\ pending' = IF opens THEN (IF room THEN <<nextPacket>> ELSE NotOpen) ELSE Append(pending, nextPacket)
        /\ recorded' = IF room THEN recorded \cup {nextPacket} ELSE recorded
  /\ UNCHANGED <<marks, job, capturing, remove, panel, discarded>>

(* sbw_capture_rotate(), the file's time is over (drain), or the capture stops. *)
Rotate(ok) ==
  /\ capturing /\ pending # NotOpen /\ Seal(ok) /\ pending' = NotOpen
  /\ UNCHANGED <<marks, job, capturing, remove, panel, nextPacket, recorded, discarded>>

(* capture_upload_begin(): one upload at a time, of a file whose checksum is right. *)
BeginUpload(f) == job.at = "idle" /\ job' = [at |-> "sending", file |-> f]

UserUploads(f) ==
  /\ capturing /\ f \in files /\ BeginUpload(f) /\ Trouble
  /\ UNCHANGED <<pending, parts, files, marks, capturing, remove, panel, nextPacket, recorded, discarded>>

(* capture_auto_upload(): rotates, then takes a file without a marker. *)
AutoUpload(ok) ==
  /\ capturing
  /\ IF pending = NotOpen THEN ok /\ UNCHANGED <<files, parts, troubles>> ELSE Seal(ok)
  /\ pending' = NotOpen
  /\ \E f \in files' \ marks : BeginUpload(f)
  /\ UNCHANGED <<marks, capturing, remove, panel, nextPacket, recorded, discarded>>

(* valid_pcap() *)
WholeCapture(f) == f # <<>> /\ Valid(f) = f

(* handle_agent_capture(), sb_store_save_capture(): a capture that is there already is accepted
   before the limit is looked at. *)
PanelSaves(f) ==
  IF ~WholeCapture(f) THEN <<"refused", panel>>
  ELSE IF f \in panel THEN <<"confirmed", panel>>
  ELSE IF Cardinality(panel) >= ServerLimit THEN <<"full", panel>>
  ELSE <<"confirmed", panel \cup {f}>>

PanelAnswers ==
  /\ job.at = "sending"
  /\ job' = [job EXCEPT !.at = PanelSaves(job.file)[1]] /\ panel' = PanelSaves(job.file)[2] /\ Calm
  /\ UNCHANGED <<pending, parts, files, marks, capturing, remove, nextPacket, recorded, discarded>>

LostIsSent(saved) ==
  /\ job.at = "sending" /\ Trouble /\ job' = [job EXCEPT !.at = "confirmed"]
  /\ panel' = IF saved THEN PanelSaves(job.file)[2] ELSE panel
  /\ UNCHANGED <<pending, parts, files, marks, capturing, remove, nextPacket, recorded, discarded>>

(* The request or its answer is lost, or the upload is cancelled (capture_upload_join). *)
UploadLost(saved) ==
  /\ job.at = "sending" /\ Trouble /\ job' = NoUpload
  /\ panel' = IF saved THEN PanelSaves(job.file)[2] ELSE panel
  /\ UNCHANGED <<pending, parts, files, marks, capturing, remove, nextPacket, recorded, discarded>>

(* capture_upload_main(), after the answer. *)
JobMarks ==
  /\ job.at = "confirmed" /\ marks' = marks \cup {job.file} /\ job' = [job EXCEPT !.at = "marked"] /\ Calm
  /\ UNCHANGED <<pending, parts, files, capturing, remove, panel, nextPacket, recorded, discarded>>

JobRemoves ==
  /\ job.at = "marked" /\ job' = NoUpload /\ Calm
  /\ IF remove THEN files' = files \ {job.file} /\ marks' = marks \ {job.file} ELSE UNCHANGED <<files, marks>>
  /\ UNCHANGED <<pending, parts, capturing, remove, panel, nextPacket, recorded, discarded>>

JobGivesUp ==
  /\ job.at \in {"full", "refused"} /\ job' = NoUpload /\ Calm
  /\ UNCHANGED <<pending, parts, files, marks, capturing, remove, panel, nextPacket, recorded, discarded>>

(* capture.delete, refused during an upload. *)
UserDeletes(f) ==
  /\ capturing /\ job.at = "idle" /\ f \in files /\ Trouble
  /\ files' = files \ {f} /\ marks' = marks \ {f} /\ discarded' = discarded \cup Records(f)
  /\ UNCHANGED <<pending, parts, job, capturing, remove, panel, nextPacket, recorded>>

(* sb_store_delete_capture(), by an administrator. *)
AdminDeletes(f) ==
  /\ f \in panel /\ Trouble /\ panel' = panel \ {f} /\ discarded' = discarded \cup Records(f)
  /\ UNCHANGED <<pending, parts, files, marks, job, capturing, remove, nextPacket, recorded>>

(* The service dies: the file stays as it is on disk, its last record whole or torn. *)
CaptureDies(torn) ==
  /\ capturing /\ Trouble /\ capturing' = FALSE /\ job' = NoUpload /\ pending' = NotOpen
  /\ LET last == pending[Len(pending)] IN
     /\ parts' = IF pending = NotOpen THEN parts
                 ELSE parts \cup {IF torn THEN [pending EXCEPT ![Len(pending)] = Torn] ELSE pending}
     /\ recorded' = IF torn /\ pending # NotOpen THEN recorded \ {last} ELSE recorded
  /\ UNCHANGED <<files, marks, remove, panel, nextPacket, discarded>>

(* sbw_capture_new(): every unsealed file is sealed. *)
CaptureNew ==
  /\ ~capturing /\ capturing' = TRUE
  /\ files' = files \cup UNION {Sealed(s) : s \in parts} /\ parts' = {} /\ Calm
  /\ UNCHANGED <<pending, marks, job, remove, panel, nextPacket, recorded, discarded>>

UploadStep == PanelAnswers \/ JobMarks \/ JobRemoves \/ JobGivesUp

CaptureNext ==
  \/ \E b, ok \in BOOLEAN : WritePacket(b, ok)
  \/ \E b \in BOOLEAN : Rotate(b) \/ AutoUpload(b) \/ UploadLost(b) \/ CaptureDies(b)
  \/ UploadStep \/ CaptureNew
  \/ \E f \in files : UserUploads(f) \/ UserDeletes(f)
  \/ \E f \in panel : AdminDeletes(f)

CaptureSpec ==
  /\ CaptureInit /\ [][CaptureNext]_captureVars
  /\ WF_captureVars(AutoUpload(TRUE)) /\ WF_captureVars(UploadStep) /\ WF_captureVars(CaptureNew)

-----------------------------------------------------------------------------
(* A recorded packet is never lost: it is in a file of the device or in the panel's database
   until its owner deletes it, whatever answers, seals and services are lost on the way. *)
NothingLost ==
  recorded \subseteq discarded \cup UNION {Records(s) : s \in {pending} \cup parts \cup files \cup panel}

(* Every sealed file is a sequence of whole records, so the panel takes it for a capture
   (valid_pcap), even one left by a service that died while writing. *)
SealedWhole == \A f \in files : f # <<>> /\ \A i \in DOMAIN f : f[i] # Torn

(* A file the panel has already is accepted again, even if the panel has no room: a device
   whose answer was lost is not told to make room for what is stored. *)
RetryAccepted == job.at = "full" => job.file \notin panel

=============================================================================
