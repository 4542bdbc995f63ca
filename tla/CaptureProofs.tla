--------------------------- MODULE CaptureProofs ---------------------------
(***************************************************************************)
(* No captured packet is lost between the device's files and the panel,    *)
(* for any number of packets, limits, crashes and lost answers.  Losing    *)
(* nothing is not inductive: a file is removed after its upload, which is  *)
(* right only because a confirmed upload is in the panel (UploadHeld); and *)
(* sealing keeps every record only because a record can be torn at the     *)
(* very end of a file alone (TornAtEnd).                                   *)
(***************************************************************************)
EXTENDS PacketCapture, SequenceTheorems, TLAPS

Whole(s)     == s # <<>> /\ \A i \in DOMAIN s : s[i] # Torn
TornAtEnd(s) == s # <<>> /\ \A i \in DOMAIN s : i < Len(s) => s[i] # Torn

\* x is in one of the files of a set.
Within(x, S) == \E s \in S : x \in Records(s)

CaptureTypeOK ==
    /\ pending \in Seq(Nat) /\ parts \subseteq Seq(Nat) /\ files \subseteq Seq(Nat)
    /\ nextPacket \in Nat \ {0}

Shapes ==
    /\ pending = NotOpen \/ Whole(pending)
    /\ \A s \in parts : TornAtEnd(s)
    /\ \A f \in files : Whole(f)

AllHeld    == \A x \in recorded : x \in discarded \/ Within(x, {pending} \cup parts \cup files \cup panel)
UploadHeld == job.at \in {"confirmed", "marked"} =>
                  \A x \in Records(job.file) : x \in discarded \/ Within(x, panel)
JobShape   == job = [at |-> job.at, file |-> job.file]

CaptureInv == CaptureTypeOK /\ Shapes /\ AllHeld /\ UploadHeld /\ JobShape /\ RetryAccepted

-----------------------------------------------------------------------------
\* The largest of a set of numbers.
LEMMA LargestChosen ==
    ASSUME NEW S \in SUBSET Nat, NEW k \in S, \A m \in S : m <= k
    PROVE  (CHOOSE n \in S : \A m \in S : m <= n) = k
<1>1. \A n \in S : (\A m \in S : m <= n) => n = k
  <2> SUFFICES ASSUME NEW n \in S, k <= n PROVE n = k
    OBVIOUS
  <2> QED
    OBVIOUS
<1> QED
  BY <1>1, Zenon

\* A file of whole records is its own valid part.
LEMMA ValidWhole ==
    ASSUME NEW s \in Seq(Nat), Whole(s)
    PROVE  Valid(s) = s
<1> DEFINE good == {n \in 0..Len(s) : \A i \in 1..n : s[i] # Torn}
<1>1. DOMAIN s = 1..Len(s) /\ Len(s) \in Nat
  OBVIOUS
<1>2. Len(s) \in good /\ \A m \in good : m <= Len(s)
  BY <1>1 DEF Whole
<1>3. good \in SUBSET Nat
  OBVIOUS
<1>4. (CHOOSE n \in good : \A m \in good : m <= n) = Len(s)
  <2> HIDE DEF good
  <2> QED
    BY <1>2, <1>3, LargestChosen
<1>5. SubSeq(s, 1, Len(s)) = s
  BY <1>1
<1> QED
  BY <1>4, <1>5 DEF Valid

\* Of a file whose last record is torn, all others are valid.
LEMMA ValidTorn ==
    ASSUME NEW s \in Seq(Nat), TornAtEnd(s), s[Len(s)] = Torn
    PROVE  Valid(s) = SubSeq(s, 1, Len(s) - 1)
<1> DEFINE good == {n \in 0..Len(s) : \A i \in 1..n : s[i] # Torn}
           k == Len(s) - 1
<1>1. DOMAIN s = 1..Len(s) /\ Len(s) \in Nat \ {0} /\ k \in Nat /\ Len(s) = k + 1
  BY DEF TornAtEnd
<1>2. k \in good /\ \A m \in good : m <= k
  <2>1. k \in good
    BY <1>1 DEF TornAtEnd
  <2>2. Len(s) \notin good
    BY <1>1
  <2> QED
    BY <1>1, <2>1, <2>2
<1>3. good \in SUBSET Nat
  OBVIOUS
<1>4. (CHOOSE n \in good : \A m \in good : m <= n) = k
  <2> HIDE DEF good, k
  <2> QED
    BY <1>2, <1>3, LargestChosen
<1> QED
  BY <1>4 DEF Valid

\* seal_path(): the records of a file are those of its valid part, which is whole.
LEMMA ValidKeeps ==
    ASSUME NEW s \in Seq(Nat), TornAtEnd(s)
    PROVE  /\ Valid(s) \in Seq(Nat)
           /\ \A x \in Records(s) : x \in Records(Valid(s))
           /\ Valid(s) # <<>> => Whole(Valid(s))
<1>1. DOMAIN s = 1..Len(s) /\ Len(s) \in Nat \ {0}
  BY DEF TornAtEnd
<1>2. CASE s[Len(s)] # Torn
  <2>1. Whole(s)
    BY <1>1, <1>2 DEF TornAtEnd, Whole
  <2> QED
    BY <2>1, ValidWhole
<1>3. CASE s[Len(s)] = Torn
  <2> DEFINE w == SubSeq(s, 1, Len(s) - 1)
  <2>1. Valid(s) = w
    BY <1>3, ValidTorn
  <2>2. w \in Seq(Nat) /\ DOMAIN w = 1..(Len(s) - 1) /\ \A i \in 1..(Len(s) - 1) : w[i] = s[i]
    BY <1>1
  <2>3. \A x \in Records(s) : x \in Records(w)
    <3> SUFFICES ASSUME NEW i \in DOMAIN s, s[i] # Torn PROVE \E j \in DOMAIN w : s[i] = w[j]
      BY Zenon DEF Records
    <3>1. i \in 1..(Len(s) - 1)
      BY <1>1, <1>3
    <3> QED
      BY <2>2, <3>1
  <2>4. w # <<>> => Whole(w)
    BY <1>1, <2>2 DEF TornAtEnd, Whole
  <2> QED
    BY <2>1, <2>2, <2>3, <2>4
<1> QED
  BY <1>2, <1>3

\* What sealing a file leaves: whole files, or the same records.
LEMMA SealedKeeps ==
    ASSUME NEW s \in Seq(Nat), TornAtEnd(s)
    PROVE  /\ Sealed(s) \subseteq Seq(Nat) /\ \A f \in Sealed(s) : Whole(f)
           /\ \A x \in Records(s) : Within(x, Sealed(s))
<1>1. CASE Valid(s) = <<>>
  <2>1. Records(Valid(s)) = {}
    BY <1>1 DEF Records
  <2> QED
    BY <1>1, <2>1, ValidKeeps DEF Sealed
<1>2. CASE Valid(s) # <<>>
  BY <1>2, ValidKeeps, Zenon DEF Sealed, Within
<1> QED
  BY <1>1, <1>2

\* An open file is whole, and so torn at most at its end.
LEMMA WholeIsTornAtEnd == ASSUME NEW s, Whole(s) PROVE TornAtEnd(s)
BY DEF Whole, TornAtEnd

\* seal(): files and parts grow, and one of them gets the open file's records.
LEMMA SealKeeps ==
    ASSUME CaptureInv, pending # NotOpen, NEW ok \in BOOLEAN, Seal(ok)
    PROVE  /\ files \subseteq files' /\ parts \subseteq parts'
           /\ files' \subseteq Seq(Nat) /\ parts' \subseteq Seq(Nat)
           /\ \A f \in files' : Whole(f)
           /\ \A s \in parts' : TornAtEnd(s)
           /\ \A x \in Records(pending) : Within(x, parts' \cup files')
<1>1. /\ pending \in Seq(Nat) /\ TornAtEnd(pending) /\ files \subseteq Seq(Nat) /\ parts \subseteq Seq(Nat)
      /\ \A f \in files : Whole(f)
      /\ \A s \in parts : TornAtEnd(s)
  BY WholeIsTornAtEnd DEF CaptureInv, CaptureTypeOK, Shapes
<1>2. CASE ok
  <2>1. files' = files \cup Sealed(pending) /\ parts' = parts
    BY <1>2 DEF Seal
  <2>2. /\ Sealed(pending) \subseteq Seq(Nat) /\ \A f \in Sealed(pending) : Whole(f)
        /\ \A x \in Records(pending) : Within(x, Sealed(pending))
    BY <1>1, SealedKeeps
  <2> QED
    BY <1>1, <2>1, <2>2, Zenon DEF Within
<1>3. CASE ~ok
  <2>1. files' = files /\ parts' = parts \cup {pending}
    BY <1>3 DEF Seal
  <2> QED
    BY <1>1, <2>1, Zenon DEF Within
<1> QED
  BY <1>2, <1>3
-----------------------------------------------------------------------------
\* What one step must show: the shapes of the files, that nothing held is dropped, and
\* that a new packet is held.
LEMMA HeldMeansKept ==
    ASSUME CaptureInv,
           \A x \in recorded' : x \notin recorded => Within(x, {pending'}),
           \A x \in recorded' \cap recorded :
              Within(x, {pending} \cup parts \cup files) =>
                 x \in discarded' \/ Within(x, {pending'} \cup parts' \cup files' \cup panel'),
           \A f \in panel : f \in panel' \/ Records(f) \subseteq discarded',
           discarded \subseteq discarded'
    PROVE  AllHeld'
<1> SUFFICES ASSUME NEW x \in recorded', x \notin discarded'
             PROVE  Within(x, {pending'} \cup parts' \cup files' \cup panel')
  BY DEF AllHeld, Within
<1>1. CASE x \notin recorded
  BY <1>1, Zenon DEF Within
<1>2. CASE x \in recorded
  <2>1. Within(x, {pending} \cup parts \cup files \cup panel)
    BY <1>2 DEF CaptureInv, AllHeld
  <2>2. CASE Within(x, {pending} \cup parts \cup files)
    BY <1>2, <2>2
  <2>3. CASE \E f \in panel : x \in Records(f)
    BY <2>3, Zenon DEF Within
  <2> QED
    BY <2>1, <2>2, <2>3, Zenon DEF Within
<1> QED
  BY <1>1, <1>2

\* A confirmed upload stays held while its job does not change.
LEMMA UploadStays ==
    ASSUME CaptureInv, job' = job, discarded \subseteq discarded',
           \A f \in panel : f \in panel' \/ Records(f) \subseteq discarded'
    PROVE  UploadHeld'
<1> SUFFICES ASSUME job.at \in {"confirmed", "marked"}, NEW x \in Records(job.file)
             PROVE  x \in discarded' \/ Within(x, panel')
  BY DEF UploadHeld, Within
<1>1. x \in discarded \/ Within(x, panel)
  BY DEF CaptureInv, UploadHeld
<1> QED
  BY <1>1, Zenon DEF Within

\* Files with one record, an appended record, and no file.
LEMMA OneRecord ==
    ASSUME NEW x \in Nat \ {0}
    PROVE  <<x>> \in Seq(Nat) /\ Whole(<<x>>) /\ x \in Records(<<x>>)
BY DEF Whole, Records, Torn

LEMMA Appended ==
    ASSUME NEW s \in Seq(Nat), Whole(s), NEW x \in Nat \ {0}
    PROVE  /\ Append(s, x) \in Seq(Nat) /\ Whole(Append(s, x)) /\ x \in Records(Append(s, x))
           /\ Records(s) \subseteq Records(Append(s, x))
<1> DEFINE t == Append(s, x)
           n == Len(s)
<1>1. /\ n \in Nat /\ DOMAIN s = 1..n /\ DOMAIN t = 1..(n+1) /\ t \in Seq(Nat)
      /\ \A i \in 1..n : t[i] = s[i]
      /\ t[n+1] = x
  OBVIOUS
<1> HIDE DEF t
<1>2. Whole(t)
  BY <1>1 DEF Whole, Torn
<1>3. x \in Records(t)
  <2>1. n + 1 \in DOMAIN t /\ x # Torn
    BY <1>1 DEF Torn
  <2> QED
    BY <1>1, <2>1, Zenon DEF Records
<1>4. Records(s) \subseteq Records(t)
  <2>1. \A i \in DOMAIN s : i \in DOMAIN t /\ t[i] = s[i]
    BY <1>1
  <2> QED
    BY <2>1, Zenon DEF Records
<1> QED
  BY <1>1, <1>2, <1>3, <1>4 DEF t

LEMMA NotOpenEmpty == NotOpen \in Seq(Nat) /\ Records(NotOpen) = {}
<1>1. NotOpen \in Seq(Nat) /\ DOMAIN NotOpen = {1} /\ NotOpen[1] = Torn
  BY DEF NotOpen, Torn
<1> QED
  BY <1>1 DEF Records

\* write_packet()
LEMMA WriteKeeps ==
    ASSUME CaptureInv, NEW expired \in BOOLEAN, NEW ok \in BOOLEAN, WritePacket(expired, ok)
    PROVE  CaptureInv'
<1>1. UNCHANGED <<job, panel, discarded>> /\ nextPacket' = nextPacket + 1 /\ nextPacket \in Nat \ {0}
  BY DEF WritePacket, CaptureInv, CaptureTypeOK
<1>2. UploadHeld' /\ JobShape' /\ RetryAccepted' /\ nextPacket' \in Nat \ {0}
  <2>1. UploadHeld'
    BY <1>1, UploadStays
  <2> QED
    BY <1>1, <2>1 DEF CaptureInv, JobShape, RetryAccepted
<1>3. pending \in Seq(Nat) /\ (pending = NotOpen \/ Whole(pending))
  BY DEF CaptureInv, CaptureTypeOK, Shapes
<1>4. ASSUME \/ pending' = <<nextPacket>> /\ recorded' = recorded \cup {nextPacket}
             \/ pending' = NotOpen /\ recorded' = recorded,
             files \subseteq files', parts \subseteq parts',
             files' \subseteq Seq(Nat), parts' \subseteq Seq(Nat),
             \A f \in files' : Whole(f), \A s \in parts' : TornAtEnd(s),
             \A x \in Records(pending) : Within(x, parts' \cup files')
      PROVE  CaptureInv'
  <2>1. CaptureTypeOK' /\ Shapes'
    BY <1>1, <1>2, <1>4, OneRecord, NotOpenEmpty DEF CaptureTypeOK, Shapes
  <2>2. \A x \in recorded' : x \notin recorded => Within(x, {pending'})
    BY <1>1, <1>4, OneRecord DEF Within
  <2>3. \A x : Within(x, {pending} \cup parts \cup files) => Within(x, parts' \cup files')
    BY <1>4, Zenon DEF Within
  <2>4. \A x : Within(x, parts' \cup files') => Within(x, {pending'} \cup parts' \cup files' \cup panel')
    BY Zenon DEF Within
  <2>5. AllHeld'
    BY <1>1, <2>2, <2>3, <2>4, HeldMeansKept
  <2> QED
    BY <1>2, <2>1, <2>5 DEF CaptureInv
<1>5. CASE FullOrOld(expired)
  <2>1. pending # NotOpen /\ Seal(ok)
    BY <1>5 DEF WritePacket, FullOrOld
  <2>2. \/ pending' = <<nextPacket>> /\ recorded' = recorded \cup {nextPacket}
        \/ pending' = NotOpen /\ recorded' = recorded
    BY <1>5 DEF WritePacket
  <2> QED
    BY <1>4, <2>1, <2>2, SealKeeps
<1>6. CASE ~FullOrOld(expired) /\ pending = NotOpen
  <2>1. UNCHANGED <<files, parts>>
    BY <1>6 DEF WritePacket
  <2>2. \/ pending' = <<nextPacket>> /\ recorded' = recorded \cup {nextPacket}
        \/ pending' = NotOpen /\ recorded' = recorded
    BY <1>6 DEF WritePacket
  <2>3. /\ files \subseteq Seq(Nat) /\ parts \subseteq Seq(Nat)
        /\ \A f \in files : Whole(f)
        /\ \A s \in parts : TornAtEnd(s)
    BY DEF CaptureInv, CaptureTypeOK, Shapes
  <2> QED
    BY <1>4, <1>6, <2>1, <2>2, <2>3, NotOpenEmpty
<1>7. CASE ~FullOrOld(expired) /\ pending # NotOpen
  <2>1. UNCHANGED <<files, parts>> /\ pending' = Append(pending, nextPacket) /\ recorded' = recorded \cup {nextPacket}
    BY <1>7 DEF WritePacket
  <2>2. /\ pending' \in Seq(Nat) /\ Whole(pending') /\ nextPacket \in Records(pending')
        /\ Records(pending) \subseteq Records(pending')
    BY <1>1, <1>3, <1>7, <2>1, Appended
  <2>3. CaptureTypeOK' /\ Shapes'
    BY <1>2, <2>1, <2>2 DEF CaptureInv, CaptureTypeOK, Shapes
  <2>4. \A x \in recorded' : x \notin recorded => Within(x, {pending'})
    BY <2>1, <2>2 DEF Within
  <2>5. \A x : Within(x, {pending} \cup parts \cup files) => Within(x, {pending'} \cup parts' \cup files' \cup panel')
    BY <2>1, <2>2, Zenon DEF Within
  <2>6. AllHeld'
    BY <1>1, <2>4, <2>5, HeldMeansKept
  <2> QED
    BY <1>2, <2>3, <2>6 DEF CaptureInv
<1> QED
  BY <1>5, <1>6, <1>7

\* Sealing the open file, for sbw_capture_rotate(), a stop or an automatic upload: everything
\* about the files and what they hold.
LEMMA ClosingKeeps ==
    ASSUME CaptureInv, pending' = NotOpen, UNCHANGED <<panel, nextPacket, recorded, discarded>>,
           \/ pending = NotOpen /\ UNCHANGED <<files, parts>>
           \/ pending # NotOpen /\ \E ok \in BOOLEAN : Seal(ok)
    PROVE  CaptureTypeOK' /\ Shapes' /\ AllHeld'
<1>1. /\ files \subseteq files' /\ parts \subseteq parts'
      /\ files' \subseteq Seq(Nat) /\ parts' \subseteq Seq(Nat)
      /\ \A f \in files' : Whole(f)
      /\ \A s \in parts' : TornAtEnd(s)
      /\ \A x \in Records(pending) : Within(x, parts' \cup files')
  <2>1. CASE pending = NotOpen /\ UNCHANGED <<files, parts>>
    BY <2>1, NotOpenEmpty DEF CaptureInv, CaptureTypeOK, Shapes
  <2>2. CASE pending # NotOpen /\ \E ok \in BOOLEAN : Seal(ok)
    BY <2>2, SealKeeps
  <2> QED
    BY <2>1, <2>2
<1>2. CaptureTypeOK' /\ Shapes'
  BY <1>1, NotOpenEmpty DEF CaptureInv, CaptureTypeOK, Shapes
<1>3. \A x : Within(x, {pending} \cup parts \cup files) => Within(x, {pending'} \cup parts' \cup files' \cup panel')
  BY <1>1, Zenon DEF Within
<1>4. AllHeld'
  BY <1>3, HeldMeansKept
<1> QED
  BY <1>2, <1>4

LEMMA RotateKeeps ==
    ASSUME CaptureInv, NEW ok \in BOOLEAN, Rotate(ok)
    PROVE  CaptureInv'
<1>1. CaptureTypeOK' /\ Shapes' /\ AllHeld'
  BY ClosingKeeps DEF Rotate
<1>2. UNCHANGED <<job, panel, discarded>>
  BY DEF Rotate
<1>3. UploadHeld'
  BY <1>2, UploadStays
<1> QED
  BY <1>1, <1>2, <1>3 DEF CaptureInv, JobShape, RetryAccepted

LEMMA AutoUploadKeeps ==
    ASSUME CaptureInv, NEW ok \in BOOLEAN, AutoUpload(ok)
    PROVE  CaptureInv'
<1>1. CaptureTypeOK' /\ Shapes' /\ AllHeld'
  BY ClosingKeeps DEF AutoUpload
<1>2. job'.at = "sending" /\ JobShape'
  BY DEF AutoUpload, BeginUpload, JobShape
<1> QED
  BY <1>1, <1>2 DEF CaptureInv, UploadHeld, RetryAccepted

\* Steps that leave the files alone: everything about the files and what they hold.
LEMMA FilesAlone ==
    ASSUME CaptureInv, UNCHANGED <<pending, parts, files, nextPacket, recorded>>,
           \A f \in panel : f \in panel' \/ Records(f) \subseteq discarded',
           discarded \subseteq discarded'
    PROVE  CaptureTypeOK' /\ Shapes' /\ AllHeld'
<1>1. CaptureTypeOK' /\ Shapes'
  BY DEF CaptureInv, CaptureTypeOK, Shapes
<1>2. \A x : Within(x, {pending} \cup parts \cup files) => Within(x, {pending'} \cup parts' \cup files' \cup panel')
  BY Zenon DEF Within
<1>3. AllHeld'
  BY <1>2, HeldMeansKept
<1> QED
  BY <1>1, <1>3

\* sb_store_save_capture(): the panel keeps what it has, and has what it confirms; it is full
\* only for what it does not have.
LEMMA PanelKeeps ==
    ASSUME NEW f, NEW a, NEW S, a = PanelSaves(f)[1], S = PanelSaves(f)[2]
    PROVE  /\ panel \subseteq S
           /\ a \in {"refused", "confirmed", "full"}
           /\ a = "confirmed" => f \in S
           /\ a = "full" => f \notin S
BY DEF PanelSaves

LEMMA PanelAnswersKeeps ==
    ASSUME CaptureInv, PanelAnswers
    PROVE  CaptureInv'
<1>1. PICK f, a, S : f = job.file /\ a = PanelSaves(f)[1] /\ S = PanelSaves(f)[2]
  OBVIOUS
<1>2. job = [at |-> job.at, file |-> f]
  BY <1>1 DEF CaptureInv, JobShape
<1>3. job' = [at |-> a, file |-> f] /\ panel' = S /\ UNCHANGED <<pending, parts, files, nextPacket, recorded, discarded>>
  BY <1>1, <1>2 DEF PanelAnswers
<1>4. panel \subseteq S /\ a \in {"refused", "confirmed", "full"} /\ (a = "confirmed" => f \in S) /\ (a = "full" => f \notin S)
  BY <1>1, PanelKeeps
<1>5. CaptureTypeOK' /\ Shapes' /\ AllHeld'
  BY <1>3, <1>4, FilesAlone
<1>6. UploadHeld'
  BY <1>3, <1>4 DEF UploadHeld, Within
<1>7. RetryAccepted' /\ JobShape'
  BY <1>3, <1>4 DEF RetryAccepted, JobShape
<1> QED
  BY <1>5, <1>6, <1>7 DEF CaptureInv

LEMMA UploadLostKeeps ==
    ASSUME CaptureInv, NEW saved \in BOOLEAN, UploadLost(saved)
    PROVE  CaptureInv'
<1>1. PICK f, a, S : f = job.file /\ a = PanelSaves(f)[1] /\ S = PanelSaves(f)[2]
  OBVIOUS
<1>2. panel \subseteq S
  BY <1>1, PanelKeeps
<1>3. panel \subseteq panel' /\ job' = NoUpload /\ UNCHANGED <<pending, parts, files, nextPacket, recorded, discarded>>
  BY <1>1, <1>2 DEF UploadLost
<1>4. CaptureTypeOK' /\ Shapes' /\ AllHeld'
  BY <1>3, FilesAlone
<1>5. UploadHeld' /\ RetryAccepted' /\ JobShape'
  BY <1>3 DEF NoUpload, UploadHeld, RetryAccepted, JobShape
<1> QED
  BY <1>4, <1>5 DEF CaptureInv

\* capture_upload_begin() by the user, the marker, and an upload that is given up.
LEMMA JobKeeps ==
    ASSUME CaptureInv, JobMarks \/ JobGivesUp \/ \E f \in files : UserUploads(f)
    PROVE  CaptureInv'
<1>1. UNCHANGED <<pending, parts, files, panel, nextPacket, recorded, discarded>>
  BY DEF JobMarks, JobGivesUp, UserUploads
<1>2. CaptureTypeOK' /\ Shapes' /\ AllHeld'
  BY <1>1, FilesAlone
<1>3. CASE JobMarks
  <2>1. job.at = "confirmed" /\ job' = [at |-> "marked", file |-> job.file]
    BY <1>3 DEF JobMarks, CaptureInv, JobShape
  <2>2. UploadHeld'
    BY <1>1, <2>1 DEF CaptureInv, UploadHeld, Within
  <2> QED
    BY <1>2, <2>1, <2>2 DEF CaptureInv, RetryAccepted, JobShape
<1>4. CASE ~JobMarks
  <2>1. job'.at \in {"idle", "sending"} /\ JobShape'
    BY <1>4 DEF JobGivesUp, UserUploads, BeginUpload, NoUpload, JobShape
  <2> QED
    BY <1>2, <2>1 DEF CaptureInv, UploadHeld, RetryAccepted
<1> QED
  BY <1>3, <1>4

\* A file taken away, when all it holds is in the panel or discarded.
LEMMA FileLeaves ==
    ASSUME CaptureInv, NEW f, files' = files \ {f},
           UNCHANGED <<pending, parts, panel, nextPacket, recorded>>, discarded \subseteq discarded',
           \A x \in Records(f) : x \in discarded' \/ Within(x, panel)
    PROVE  CaptureTypeOK' /\ Shapes' /\ AllHeld'
<1>1. CaptureTypeOK' /\ Shapes'
  BY DEF CaptureInv, CaptureTypeOK, Shapes
<1>2. \A x : Within(x, {pending} \cup parts \cup files) =>
                x \in discarded' \/ Within(x, {pending'} \cup parts' \cup files' \cup panel')
  <2> SUFFICES ASSUME NEW x, NEW s \in {pending} \cup parts \cup files, x \in Records(s)
               PROVE  x \in discarded' \/ Within(x, {pending} \cup parts \cup (files \ {f}) \cup panel)
    BY DEF Within
  <2>1. CASE s = f
    BY <2>1, Zenon DEF Within
  <2>2. CASE s # f
    BY <2>2, Zenon DEF Within
  <2> QED
    BY <2>1, <2>2
<1>3. AllHeld'
  BY <1>2, HeldMeansKept
<1> QED
  BY <1>1, <1>3

\* The upload thread removes only a file whose upload was confirmed.
LEMMA JobRemovesKeeps ==
    ASSUME CaptureInv, JobRemoves
    PROVE  CaptureInv'
<1>1. job' = NoUpload /\ job.at = "marked" /\ UNCHANGED <<pending, parts, panel, nextPacket, recorded, discarded>>
  BY DEF JobRemoves
<1>2. CaptureTypeOK' /\ Shapes' /\ AllHeld'
  <2>1. CASE remove
    <3>1. files' = files \ {job.file} /\ \A x \in Records(job.file) : x \in discarded \/ Within(x, panel)
      BY <1>1, <2>1 DEF JobRemoves, CaptureInv, UploadHeld
    <3>2. PICK f : f = job.file
      OBVIOUS
    <3>3. files' = files \ {f} /\ \A x \in Records(f) : x \in discarded' \/ Within(x, panel)
      BY <1>1, <3>1, <3>2
    <3> QED
      BY <1>1, <3>3, FileLeaves
  <2>2. CASE ~remove
    BY <1>1, <2>2, FilesAlone DEF JobRemoves
  <2> QED
    BY <2>1, <2>2
<1>3. UploadHeld' /\ RetryAccepted' /\ JobShape'
  BY <1>1 DEF NoUpload, UploadHeld, RetryAccepted, JobShape
<1> QED
  BY <1>2, <1>3 DEF CaptureInv

LEMMA UserDeletesKeeps ==
    ASSUME CaptureInv, NEW f \in files, UserDeletes(f)
    PROVE  CaptureInv'
<1>1. /\ UNCHANGED <<pending, parts, job, panel, nextPacket, recorded>>
      /\ files' = files \ {f} /\ discarded \subseteq discarded' /\ Records(f) \subseteq discarded'
  BY DEF UserDeletes
<1>2. CaptureTypeOK' /\ Shapes' /\ AllHeld'
  BY <1>1, FileLeaves
<1>3. UploadHeld'
  BY <1>1, UploadStays
<1> QED
  BY <1>1, <1>2, <1>3 DEF CaptureInv, JobShape, RetryAccepted

LEMMA AdminDeletesKeeps ==
    ASSUME CaptureInv, NEW f \in panel, AdminDeletes(f)
    PROVE  CaptureInv'
<1>1. /\ UNCHANGED <<pending, parts, files, job, nextPacket, recorded>>
      /\ panel' = panel \ {f} /\ discarded \subseteq discarded' /\ Records(f) \subseteq discarded'
  BY DEF AdminDeletes
<1>2. \A g \in panel : g \in panel' \/ Records(g) \subseteq discarded'
  BY <1>1
<1>3. CaptureTypeOK' /\ Shapes' /\ AllHeld'
  BY <1>1, <1>2, FilesAlone
<1>4. UploadHeld'
  BY <1>1, <1>2, UploadStays
<1> QED
  BY <1>1, <1>3, <1>4 DEF CaptureInv, JobShape, RetryAccepted

\* The last record of a file is torn: the others are kept, and only the end is torn.
LEMMA LastChanged ==
    ASSUME NEW s, Whole(s), NEW t, NEW n \in Nat \ {0}, n = Len(t), DOMAIN s = 1..n, DOMAIN t = 1..n,
           \A i \in 1..n : i < n => t[i] = s[i]
    PROVE  TornAtEnd(t) /\ \A x \in Records(s) : x # s[n] => x \in Records(t)
<1>1. TornAtEnd(t)
  <2>1. t # <<>>
    BY Len(<<>>) = 0
  <2>2. ASSUME NEW i \in 1..n, i < n PROVE t[i] # Torn
    BY <2>2 DEF Whole
  <2> QED
    BY <2>1, <2>2 DEF TornAtEnd
<1>2. ASSUME NEW x \in Records(s), x # s[n] PROVE x \in Records(t)
  <2>1. PICK i \in 1..n : x = s[i] /\ x # Torn
    BY DEF Records
  <2>2. i < n
    BY <1>2, <2>1
  <2>3. t[i] = x
    BY <2>1, <2>2
  <2> QED
    BY <2>1, <2>3 DEF Records
<1> QED
  BY <1>1, <1>2

LEMMA LastTorn ==
    ASSUME NEW s \in Seq(Nat), Whole(s), NEW t, t = [s EXCEPT ![Len(s)] = Torn]
    PROVE  /\ t \in Seq(Nat) /\ TornAtEnd(t)
           /\ \A x \in Records(s) : x # s[Len(s)] => x \in Records(t)
<1>1. Len(s) \in 1..Len(s) /\ Torn \in Nat
  BY DEF Whole, Torn
<1>2. t \in Seq(Nat) /\ Len(t) = Len(s) /\ \A i \in 1..Len(s) : t[i] = IF i = Len(s) THEN Torn ELSE s[i]
  BY <1>1, ExceptSeq
<1>3. PICK n : n = Len(s)
  OBVIOUS
<1>4. n \in Nat \ {0} /\ n = Len(t) /\ DOMAIN s = 1..n
  BY <1>1, <1>2, <1>3
<1>5. DOMAIN t = 1..n
  BY <1>2, <1>4, LenProperties
<1>6. \A i \in 1..n : i < n => t[i] = s[i]
  BY <1>2, <1>3, <1>4
<1>7. TornAtEnd(t) /\ \A x \in Records(s) : x # s[n] => x \in Records(t)
  BY <1>4, <1>5, <1>6, LastChanged, Zenon
<1> QED
  BY <1>2, <1>3, <1>7, Zenon

\* The service dies: what is left of the open file has all that was recorded of it.
LEMMA CaptureDiesKeeps ==
    ASSUME CaptureInv, NEW torn \in BOOLEAN, CaptureDies(torn)
    PROVE  CaptureInv'
<1>1. /\ pending' = NotOpen /\ job' = NoUpload
      /\ UNCHANGED <<files, panel, nextPacket, discarded>> /\ recorded' \subseteq recorded
  BY DEF CaptureDies
<1>2. /\ parts \subseteq parts' /\ parts' \subseteq Seq(Nat) /\ \A s \in parts' : TornAtEnd(s)
      /\ \A x \in Records(pending) \cap recorded' : Within(x, parts')
  <2>1. CASE pending = NotOpen
    BY <2>1, NotOpenEmpty DEF CaptureDies, CaptureInv, CaptureTypeOK, Shapes
  <2>2. CASE pending # NotOpen
    <3>1. pending \in Seq(Nat) /\ Whole(pending)
      BY <2>2 DEF CaptureInv, CaptureTypeOK, Shapes
    <3>2. PICK p, t, k : p = pending /\ t = [pending EXCEPT ![Len(pending)] = Torn] /\ k = pending[Len(pending)]
      OBVIOUS
    <3>3. t \in Seq(Nat) /\ TornAtEnd(t) /\ \A x \in Records(pending) : x # k => x \in Records(t)
      <4>1. p \in Seq(Nat) /\ Whole(p) /\ t = [p EXCEPT ![Len(p)] = Torn] /\ k = p[Len(p)]
        BY <3>1, <3>2
      <4> QED
        BY <3>2, <4>1, LastTorn
    <3>4. TornAtEnd(pending)
      BY <3>1, WholeIsTornAtEnd
    <3>5. CASE torn
      <4>1. parts' = parts \cup {t} /\ recorded' = recorded \ {k}
        BY <2>2, <3>2, <3>5 DEF CaptureDies
      <4>2. parts' \subseteq Seq(Nat) /\ \A s \in parts' : TornAtEnd(s)
        BY <3>3, <4>1 DEF CaptureInv, CaptureTypeOK, Shapes
      <4> QED
        BY <3>3, <4>1, <4>2 DEF Within
    <3>6. CASE ~torn
      <4>1. parts' = parts \cup {pending}
        BY <2>2, <3>6 DEF CaptureDies
      <4>2. parts' \subseteq Seq(Nat) /\ \A s \in parts' : TornAtEnd(s)
        BY <3>1, <3>4, <4>1 DEF CaptureInv, CaptureTypeOK, Shapes
      <4> QED
        BY <4>1, <4>2 DEF Within
    <3> QED
      BY <3>5, <3>6
  <2> QED
    BY <2>1, <2>2
<1>3. CaptureTypeOK' /\ Shapes'
  BY <1>1, <1>2, NotOpenEmpty DEF CaptureInv, CaptureTypeOK, Shapes
<1>4. \A x \in recorded' : Within(x, {pending} \cup parts \cup files) =>
                              Within(x, {pending'} \cup parts' \cup files' \cup panel')
  BY <1>1, <1>2, Zenon DEF Within
<1>5. AllHeld'
  BY <1>1, <1>4, HeldMeansKept
<1>6. UploadHeld' /\ RetryAccepted' /\ JobShape'
  BY <1>1 DEF NoUpload, UploadHeld, RetryAccepted, JobShape
<1> QED
  BY <1>3, <1>5, <1>6 DEF CaptureInv

\* sbw_capture_new(): every record of an unsealed file is in a sealed one.
LEMMA CaptureNewKeeps ==
    ASSUME CaptureInv, CaptureNew
    PROVE  CaptureInv'
<1>1. /\ files' = files \cup UNION {Sealed(s) : s \in parts} /\ parts' = {}
      /\ UNCHANGED <<pending, job, panel, nextPacket, recorded, discarded>>
  BY DEF CaptureNew
<1>2. \A s \in parts : /\ Sealed(s) \subseteq Seq(Nat) /\ \A f \in Sealed(s) : Whole(f)
                       /\ \A x \in Records(s) : Within(x, Sealed(s))
  BY SealedKeeps DEF CaptureInv, CaptureTypeOK, Shapes
<1>3. \A f \in files' : f \in files \/ \E s \in parts : f \in Sealed(s)
  BY <1>1, Zenon
<1>4. \A s \in parts : Sealed(s) \subseteq files'
  BY <1>1, Zenon
<1>5. files' \subseteq Seq(Nat) /\ \A f \in files' : Whole(f)
  BY <1>2, <1>3, Zenon DEF CaptureInv, CaptureTypeOK, Shapes
<1>6. CaptureTypeOK' /\ Shapes'
  BY <1>1, <1>5 DEF CaptureInv, CaptureTypeOK, Shapes
<1>7. files \subseteq files'
  BY <1>1
<1>8. \A x : Within(x, {pending} \cup parts \cup files) => Within(x, {pending'} \cup parts' \cup files' \cup panel')
  <2> SUFFICES ASSUME NEW x, NEW s \in {pending} \cup parts \cup files, x \in Records(s)
               PROVE  Within(x, {pending'} \cup parts' \cup files' \cup panel')
    BY DEF Within
  <2>1. CASE s \in parts
    BY <1>2, <1>4, <2>1, Zenon DEF Within
  <2>2. CASE s \notin parts
    BY <1>1, <1>7, <2>2, Zenon DEF Within
  <2> QED
    BY <2>1, <2>2
<1>9. AllHeld' /\ UploadHeld'
  BY <1>1, <1>8, HeldMeansKept, UploadStays
<1> QED
  BY <1>1, <1>6, <1>9 DEF CaptureInv, JobShape, RetryAccepted

LEMMA CaptureInitial == CaptureInit => CaptureInv
<1> SUFFICES ASSUME CaptureInit PROVE CaptureInv
  OBVIOUS
<1>1. CaptureTypeOK /\ Shapes /\ AllHeld
  BY NotOpenEmpty DEF CaptureInit, CaptureTypeOK, Shapes, AllHeld
<1>2. UploadHeld /\ JobShape /\ RetryAccepted
  BY DEF CaptureInit, NoUpload, UploadHeld, JobShape, RetryAccepted
<1> QED
  BY <1>1, <1>2 DEF CaptureInv

LEMMA CaptureStep == CaptureInv /\ [CaptureNext]_captureVars => CaptureInv'
<1> SUFFICES ASSUME CaptureInv, [CaptureNext]_captureVars PROVE CaptureInv'
  OBVIOUS
<1>1. CASE UNCHANGED captureVars
  BY <1>1 DEF captureVars, CaptureInv, CaptureTypeOK, Shapes, AllHeld, UploadHeld, JobShape, RetryAccepted
<1>2. CASE \E b, ok \in BOOLEAN : WritePacket(b, ok)
  BY <1>2, WriteKeeps
<1>3. CASE \E b \in BOOLEAN : Rotate(b) \/ AutoUpload(b) \/ UploadLost(b) \/ CaptureDies(b)
  BY <1>3, RotateKeeps, AutoUploadKeeps, UploadLostKeeps, CaptureDiesKeeps
<1>4. CASE UploadStep \/ CaptureNew
  BY <1>4, PanelAnswersKeeps, JobKeeps, JobRemovesKeeps, CaptureNewKeeps DEF UploadStep
<1>5. CASE \E f \in files : UserUploads(f) \/ UserDeletes(f)
  BY <1>5, JobKeeps, UserDeletesKeeps
<1>6. CASE \E f \in panel : AdminDeletes(f)
  BY <1>6, AdminDeletesKeeps
<1> QED
  BY <1>1, <1>2, <1>3, <1>4, <1>5, <1>6 DEF CaptureNext

LEMMA CaptureInvShows == CaptureInv => NothingLost /\ SealedWhole /\ RetryAccepted
<1> SUFFICES ASSUME CaptureInv PROVE NothingLost /\ SealedWhole
  BY DEF CaptureInv
<1>1. NothingLost
  <2> SUFFICES ASSUME NEW x \in recorded, x \notin discarded
               PROVE  x \in UNION {Records(s) : s \in {pending} \cup parts \cup files \cup panel}
    BY DEF NothingLost
  <2>1. Within(x, {pending} \cup parts \cup files \cup panel)
    BY DEF CaptureInv, AllHeld
  <2> QED
    BY <2>1, Zenon DEF Within
<1>2. SealedWhole
  BY DEF CaptureInv, Shapes, Whole, SealedWhole
<1> QED
  BY <1>1, <1>2

\* A packet that capture.c wrote to a file is in a file of the device or in the panel's database
\* until its owner deletes it; sealed files hold whole records only; and the panel never answers
\* that it is full to a file it already has. For any limits and any number of packets, crashes,
\* failed seals and lost answers.
THEOREM CaptureTheorem == CaptureSpec => [](NothingLost /\ SealedWhole /\ RetryAccepted)
<1>1. CaptureInit => CaptureInv
  BY CaptureInitial
<1>2. CaptureInv /\ [CaptureNext]_captureVars => CaptureInv'
  BY CaptureStep
<1>3. CaptureInv => NothingLost /\ SealedWhole /\ RetryAccepted
  BY CaptureInvShows
<1> QED
  BY <1>1, <1>2, <1>3, PTL DEF CaptureSpec
=============================================================================
