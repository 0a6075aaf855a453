---------------------------- MODULE ServicesProofs ----------------------------
(***************************************************************************)
(* Proofs about what MCServices puts together, for every value of its      *)
(* constants: a download of Browser answers one version and a Chromium     *)
(* lives within its call and the slot; the engines of Imaging agree; the   *)
(* child of RegexWorker is reaped; and, from BrokerProofs, what Broker     *)
(* promises.                                                               *)
(***************************************************************************)
EXTENDS MCServices, SequenceTheorems, FiniteSetTheorems, TLAPS

-----------------------------------------------------------------------------
(* The inductive invariant.                                                *)

\* What a validator vouches for is what it was received with, and a response that
\* streams appends the same version.
Sound(k) ==
    /\ k.validator # 0 => \A i \in 1..Len(k.got) : k.got[i] = k.validator
    /\ k.stage = "streaming" => /\ k.part \in Versions
                                /\ k.validator \in {0, k.part}
                                /\ \A i \in 1..Len(k.got) : k.got[i] = k.part

ContentInv == \A c \in Calls : Sound(call[c])

OneVersion(file) ==
    /\ \A i, j \in 1..Len(file.got) : file.got[i] = file.got[j]
    /\ file.declared => Len(file.got) = Chunks

FilesInv == OneVersion(remembered) /\ \A c \in Calls : OneVersion(call[c].file)

PageStages == {"launching", "page", "loaded", "closing"}
DownloadStages == {"checking", "looking", "asking", "streaming", "pausing"}

Holds(c, s) ==
    /\ call[c].stage \in PageStages \cup DownloadStages \cup {"leaving"}
    /\ Slot(c) = s

\* A slot that is free has no holder, and one that is taken has one.
SlotInv ==
    \A c \in Calls, s \in Slots :
        Holds(c, s) => free[s] = 0 /\ \A d \in Calls : Holds(d, s) => c = d

\* A page call runs in the foreground.
PagesInv ==
    \A c \in Calls :
        /\ call[c].op = "page" => ~call[c].background
        /\ call[c].stage \in PageStages => call[c].op = "page"
        /\ c \in browsers => call[c].stage \in PageStages

\* The steps of a page call, and those of a download.
Page(c) == Launch(c) \/ Handshake(c) \/ Navigate(c) \/ Extract(c) \/ Exit(c)

Download(c) ==
    \/ CallerLeaves(c) \/ Check(c) \/ Look(c) \/ Pause(c) \/ NoAnswer(c) \/ Redirect(c)
    \/ TryLater(c) \/ Refused(c) \/ Whole(c) \/ Partial(c) \/ Broken(c) \/ Finish(c) \/ Overruns(c)

IInv == TypeOK /\ ContentInv /\ FilesInv /\ SlotInv /\ PagesInv

-----------------------------------------------------------------------------
(* Contents.                                                               *)

LEMMA ContentIsSeq ==
    ASSUME NEW got
    PROVE  got \in Content <=> got \in Seq(Versions) /\ Len(got) <= Chunks
<1> USE BrowserAssumption
<1>1. ASSUME got \in Content
      PROVE  got \in Seq(Versions) /\ Len(got) <= Chunks
  <2>1. PICK n \in 0..Chunks : got \in [1..n -> Versions]
    BY <1>1 DEF Content
  <2>2. n \in Nat
    OBVIOUS
  <2> QED
    BY <2>1, <2>2
<1>2. ASSUME got \in Seq(Versions), Len(got) <= Chunks
      PROVE  got \in Content
  <2>1. Len(got) \in 0..Chunks /\ got \in [1..Len(got) -> Versions]
    BY <1>2
  <2> QED
    BY <2>1 DEF Content
<1> QED
  BY <1>1, <1>2

LEMMA EmptyContent == <<>> \in Content /\ Len(<<>>) = 0
<1>1. <<>> \in Seq(Versions) /\ Len(<<>>) = 0
  OBVIOUS
<1>2. Len(<<>>) <= Chunks
  BY <1>1, BrowserAssumption
<1> DEFINE e == <<>>
<1>3. e \in Seq(Versions) /\ Len(e) <= Chunks
  BY <1>1, <1>2
<1> HIDE DEF e
<1>4. e \in Content
  BY <1>3, ContentIsSeq
<1> QED
  BY <1>1, <1>4 DEF e

\* What _Transfer.stream leaves in the content file.
LEMMA StreamedContent ==
    ASSUME NEW c \in Calls, call[c].got \in Content, call[c].part \in Versions,
           NEW n \in 0..Rest(c)
    PROVE  /\ Streamed(c, n) \in Content
           /\ Len(Streamed(c, n)) = Len(call[c].got) + n
           /\ \A i \in 1..Len(Streamed(c, n)) :
                  Streamed(c, n)[i] = IF i <= Len(call[c].got) THEN call[c].got[i]
                                                               ELSE call[c].part
<1> DEFINE g == call[c].got
           p == call[c].part
           t == [i \in 1..n |-> p]
<1>1. g \in Seq(Versions) /\ Len(g) \in Nat /\ Len(g) <= Chunks
  BY ContentIsSeq
<1>2. n \in Nat /\ Len(g) + n <= Chunks
  BY <1>1, BrowserAssumption DEF Rest
<1>3. t \in Seq(Versions) /\ Len(t) = n /\ \A i \in 1..n : t[i] = p
  <2> HIDE DEF p
  <2>1. t \in [1..n -> Versions]
    BY DEF p
  <2>2. t \in Seq(Versions)
    BY <1>2, <2>1
  <2> QED
    BY <1>2, <2>1, <2>2
<1>4. Streamed(c, n) = g \o t
  BY DEF Streamed
<1> HIDE DEF g, p, t
<1>5. /\ g \o t \in Seq(Versions)
      /\ Len(g \o t) = Len(g) + n
      /\ \A i \in 1..(Len(g) + n) : (g \o t)[i] = IF i <= Len(g) THEN g[i] ELSE t[i - Len(g)]
  BY <1>1, <1>3, ConcatProperties
<1>6. \A i \in 1..(Len(g) + n) : (g \o t)[i] = IF i <= Len(g) THEN g[i] ELSE p
  BY <1>1, <1>2, <1>3, <1>5
<1>7. g \o t \in Content
  BY <1>2, <1>5, ContentIsSeq
<1> QED
  BY <1>4, <1>5, <1>6, <1>7 DEF g, p
-----------------------------------------------------------------------------
(* Types.                                                                  *)

LEMMA PutType ==
    ASSUME TypeOK, NEW c \in Calls, NEW new \in Call, Put(c, new)
    PROVE  /\ call' \in [Calls -> Call]
           /\ call'[c] = new
           /\ \A d \in Calls \ {c} : call'[d] = call[d]
BY DEF Put, TypeOK

LEMMA IdleType == Idle \in Call /\ NoFile \in Files
<1>1. NoFile \in Files
  BY EmptyContent DEF NoFile, Files
<1>2. 0 \in 0..(Attempts - 1) /\ 0 \in 0..MaxVersion /\ 0 \in 0..MaxRedirects
  BY BrowserAssumption
<1> QED
  BY <1>1, <1>2, EmptyContent DEF Idle, Call

LEMMA InitType == Init => TypeOK
<1> SUFFICES ASSUME Init
             PROVE  TypeOK
  OBVIOUS
<1>1. 1 \in Versions /\ 0 \in 0..PerMinute
  BY BrowserAssumption DEF Versions
<1>2. call \in [Calls -> Call]
  BY IdleType DEF Init
<1>3. free \in [Slots -> 0..1]
  BY DEF Init
<1>4. up \in BOOLEAN /\ cooling \in BOOLEAN /\ held \in BOOLEAN
  BY DEF Init
<1>5. version \in Versions /\ recent \in 0..PerMinute /\ strays \in 0..1 /\ browsers \subseteq Calls
  BY <1>1 DEF Init
<1>6. remembered \in Files
  BY IdleType DEF Init
<1> QED
  BY <1>2, <1>3, <1>4, <1>5, <1>6 DEF TypeOK

\* The states a call may be put into from one of the type.
LEMMA AnswerType ==
    ASSUME TypeOK, NEW c \in Calls
    PROVE  \A file \in Files :
               [Idle EXCEPT !.stage = "leaving", !.background = call[c].background,
                            !.op = call[c].op, !.file = file] \in Call
<1>1. call[c] \in Call
  BY DEF TypeOK
<1> QED
  BY <1>1, IdleType DEF Call

LEMMA RaiseType ==
    ASSUME TypeOK, NEW c \in Calls, Raise(c)
    PROVE  call' \in [Calls -> Call]
BY AnswerType, IdleType, PutType DEF Raise, Answer

LEMMA RetryType ==
    ASSUME TypeOK, NEW c \in Calls, Retry(c)
    PROVE  call' \in [Calls -> Call]
<1>1. CASE Raise(c)
  BY <1>1, RaiseType
<1>2. CASE /\ call[c].failures + 1 < Attempts
           /\ Put(c, [call[c] EXCEPT !.failures = @ + 1, !.stage = "pausing"])
  <2>1. call[c] \in Call /\ call[c].failures \in 0..(Attempts - 1)
    BY DEF TypeOK, Call
  <2>2. call[c].failures + 1 \in 0..(Attempts - 1)
    BY <1>2, <2>1, BrowserAssumption
  <2>3. [call[c] EXCEPT !.failures = @ + 1, !.stage = "pausing"] \in Call
    BY <2>1, <2>2 DEF Call
  <2> QED
    BY <1>2, <2>3, PutType
<1> QED
  BY <1>1, <1>2 DEF Retry

LEMMA PageType ==
    ASSUME TypeOK, NEW c \in Calls, Page(c)
    PROVE  TypeOK'
<1>1. call[c] \in Call
  BY DEF TypeOK
<1>2. \A stage \in PageStages \cup {"leaving"} : [call[c] EXCEPT !.stage = stage] \in Call
  BY <1>1 DEF Call, PageStages
<1>3. ASSUME NEW stage \in PageStages \cup {"leaving"}, Go(c, stage)
      PROVE  call' \in [Calls -> Call]
  BY <1>2, <1>3, PutType DEF Go
<1>4. CASE Launch(c)
  <2>1. call' \in [Calls -> Call]
    BY <1>4, RaiseType DEF Launch, TypeOK
  <2> QED
    BY <1>4, <2>1 DEF Launch, TypeOK, Admission, Web, Reuse
<1>5. CASE Handshake(c)
  <2>1. call' \in [Calls -> Call]
    BY <1>3, <1>5, RaiseType DEF Handshake, PageStages
  <2> QED
    BY <1>5, <2>1 DEF Handshake, TypeOK, Admission, Chromium, Web, Reuse
<1>6. CASE Navigate(c)
  <2>1. call' \in [Calls -> Call]
    BY <1>3, <1>6 DEF Navigate, PageStages
  <2> QED
    BY <1>6, <2>1 DEF Navigate, TypeOK, Admission, Chromium, Web, Reuse
<1>7. CASE Extract(c)
  <2>1. call' \in [Calls -> Call]
    BY <1>3, <1>7 DEF Extract, PageStages
  <2> QED
    BY <1>7, <2>1 DEF Extract, TypeOK, Admission, Chromium, Web, Reuse
<1>8. CASE Exit(c)
  <2>1. call' \in [Calls -> Call]
    BY <1>3, <1>8 DEF Exit
  <2> QED
    BY <1>8, <2>1 DEF Exit, TypeOK, Admission, Web, Reuse
<1> QED
  BY <1>4, <1>5, <1>6, <1>7, <1>8 DEF Page

LEMMA AdmissionType ==
    ASSUME TypeOK, SlotInv, NEW c \in Calls,
           Connect(c) \/ CheckRate(c) \/ Acquire(c) \/ Leave(c) \/ Reply(c)
    PROVE  TypeOK'
<1>1. call[c] \in Call /\ Slot(c) \in Slots /\ free[Slot(c)] \in 0..1
  BY DEF TypeOK, Slot, Slots
<1>2. \A stage \in {"replying", "waiting", "launching", "checking"} :
          [call[c] EXCEPT !.stage = stage] \in Call
  BY <1>1 DEF Call
<1>3. [Idle EXCEPT !.stage = "replying"] \in Call
  BY IdleType DEF Call
<1>4. CASE Connect(c)
  <2>1. \A op \in {"page", "download"}, b \in BOOLEAN :
            [Idle EXCEPT !.stage = "asked", !.op = op, !.background = b] \in Call
    BY IdleType DEF Call
  <2>2. call' \in [Calls -> Call]
    BY <1>2, <1>4, <2>1, PutType DEF Connect, Go
  <2> QED
    BY <1>4, <2>2 DEF Connect, TypeOK, Admission, Chromium, Web, Reuse
<1>5. CASE CheckRate(c)
  <2>1. call' \in [Calls -> Call]
    BY <1>2, <1>3, <1>5, PutType DEF CheckRate, Go
  <2>2. recent' \in 0..PerMinute
    BY <1>5, BrowserAssumption DEF CheckRate, TypeOK
  <2> QED
    BY <1>5, <2>1, <2>2 DEF CheckRate, TypeOK, Chromium, Web, Reuse
<1>6. CASE Acquire(c)
  <2>1. call' \in [Calls -> Call]
    BY <1>2, <1>3, <1>6, PutType DEF Acquire, Go
  <2>2. free' \in [Slots -> 0..1]
    BY <1>1, <1>6 DEF Acquire, TypeOK
  <2> QED
    BY <1>6, <2>1, <2>2 DEF Acquire, TypeOK, Chromium, Web, Reuse
<1>7. CASE Leave(c)
  <2>1. call' \in [Calls -> Call]
    BY <1>3, <1>7, PutType DEF Leave
  <2>2. free[Slot(c)] = 0
    BY <1>1, <1>7 DEF Leave, At, SlotInv, Holds
  <2>3. free[Slot(c)] + 1 \in 0..1
    BY <2>2
  <2>4. free' \in [Slots -> 0..1]
    BY <1>7, <2>3 DEF Leave, TypeOK
  <2> QED
    BY <1>7, <2>1, <2>4 DEF Leave, TypeOK, Chromium, Web, Reuse
<1>8. CASE Reply(c)
  <2>1. call' \in [Calls -> Call]
    BY <1>8, IdleType, PutType DEF Reply
  <2> QED
    BY <1>8, <2>1 DEF Reply, TypeOK, Admission, Chromium, Web, Reuse
<1> QED
  BY <1>4, <1>5, <1>6, <1>7, <1>8

LEMMA DownloadType ==
    ASSUME TypeOK, ContentInv, NEW c \in Calls, Download(c)
    PROVE  TypeOK'
<1>1. /\ call[c] \in Call /\ call[c].got \in Content /\ Len(call[c].got) \in 0..Chunks
      /\ version \in 0..MaxVersion /\ version \in Versions
  <2>1. call[c].got \in Seq(Versions) /\ Len(call[c].got) <= Chunks
    BY ContentIsSeq DEF TypeOK, Call
  <2> QED
    BY <2>1, BrowserAssumption DEF TypeOK, Call, Versions
<1>2. \A stage \in DownloadStages, n \in Versions, v \in 0..MaxVersion, g \in Content :
          /\ [call[c] EXCEPT !.stage = stage] \in Call
          /\ [call[c] EXCEPT !.got = g, !.validator = v, !.part = n, !.stage = stage] \in Call
          /\ [call[c] EXCEPT !.part = n, !.stage = stage] \in Call
  <2> SUFFICES ASSUME NEW stage \in DownloadStages, NEW n \in Versions, NEW v \in 0..MaxVersion,
                      NEW g \in Content
               PROVE  /\ [call[c] EXCEPT !.stage = stage] \in Call
                      /\ [call[c] EXCEPT !.got = g, !.validator = v, !.part = n, !.stage = stage]
                             \in Call
                      /\ [call[c] EXCEPT !.part = n, !.stage = stage] \in Call
    OBVIOUS
  <2>1. n \in 0..MaxVersion
    BY BrowserAssumption DEF Versions
  <2> QED
    BY <1>1, <2>1 DEF Call, DownloadStages
<1>3. ASSUME NEW stage \in DownloadStages, Go(c, stage)
      PROVE  call' \in [Calls -> Call]
  BY <1>1, <1>2, <1>3, PutType, EmptyContent DEF Go
<1>4. CASE CallerLeaves(c)
  <2>1. [call[c] EXCEPT !.gone = TRUE] \in Call
    BY <1>1 DEF Call
  <2>2. call' \in [Calls -> Call]
    BY <1>4, <2>1, PutType DEF CallerLeaves
  <2> QED
    BY <1>4, <2>2 DEF CallerLeaves, TypeOK, Admission, Chromium, Web, Reuse
<1>5. CASE Check(c)
  <2>1. call' \in [Calls -> Call]
    BY <1>3, <1>5, AnswerType, RaiseType, PutType DEF Check, Answer, DownloadStages, TypeOK
  <2>2. remembered' \in Files /\ held' \in BOOLEAN
    BY <1>5, IdleType DEF Check, TypeOK, Reuse
  <2> QED
    BY <1>5, <2>1, <2>2 DEF Check, TypeOK, Admission, Chromium, Web
<1>6. CASE Look(c)
  <2>1. call' \in [Calls -> Call]
    BY <1>3, <1>6, RaiseType DEF Look, DownloadStages
  <2> QED
    BY <1>6, <2>1 DEF Look, TypeOK, Admission, Chromium, Web, Reuse
<1>7. CASE Pause(c)
  <2>1. call' \in [Calls -> Call]
    BY <1>3, <1>7, RaiseType DEF Pause, DownloadStages
  <2> QED
    BY <1>7, <2>1 DEF Pause, TypeOK, Admission, Chromium, Web, Reuse
<1>8. CASE NoAnswer(c)
  <2>1. call' \in [Calls -> Call]
    BY <1>8, RetryType DEF NoAnswer
  <2> QED
    BY <1>8, <2>1 DEF NoAnswer, TypeOK, Admission, Chromium, Web, Reuse
<1>9. CASE Redirect(c)
  <2>1. CASE call[c].redirects >= MaxRedirects
    BY <1>9, <2>1, RaiseType DEF Redirect, TypeOK, Admission, Chromium, Web, Reuse
  <2>2. CASE ~(call[c].redirects >= MaxRedirects)
    <3>1. call[c].redirects + 1 \in 0..MaxRedirects
      BY <1>1, <2>2, BrowserAssumption DEF Call
    <3>2. [call[c] EXCEPT !.redirects = @ + 1, !.stage = "looking"] \in Call
      BY <1>1, <3>1 DEF Call
    <3>3. call' \in [Calls -> Call]
      BY <1>9, <2>2, <3>2, PutType DEF Redirect
    <3> QED
      BY <1>9, <3>3 DEF Redirect, TypeOK, Admission, Chromium, Web, Reuse
  <2> QED
    BY <2>1, <2>2
<1>10. CASE TryLater(c)
  <2>1. call' \in [Calls -> Call] /\ cooling' \in BOOLEAN
    BY <1>10, RetryType DEF TryLater, TypeOK
  <2> QED
    BY <1>10, <2>1 DEF TryLater, TypeOK, Admission, Chromium, Reuse
<1>11. CASE Refused(c)
  <2>1. call' \in [Calls -> Call]
    BY <1>11, RaiseType DEF Refused
  <2> QED
    BY <1>11, <2>1 DEF Refused, TypeOK, Admission, Chromium, Web, Reuse
<1>12. CASE Whole(c)
  <2>1. PICK v \in {0, version} :
            Put(c, [call[c] EXCEPT !.got = <<>>, !.validator = v, !.part = version,
                                   !.stage = "streaming"])
    BY <1>12 DEF Whole
  <2>2. v \in 0..MaxVersion /\ "streaming" \in DownloadStages
    BY <1>1, BrowserAssumption DEF DownloadStages
  <2>3. [call[c] EXCEPT !.got = <<>>, !.validator = v, !.part = version, !.stage = "streaming"]
            \in Call
    BY <1>1, <1>2, <2>2, EmptyContent
  <2>4. call' \in [Calls -> Call]
    BY <2>1, <2>3, PutType
  <2> QED
    BY <1>12, <2>4 DEF Whole, TypeOK, Admission, Chromium, Web, Reuse
<1>13. CASE Partial(c)
  <2>1. [call[c] EXCEPT !.part = version, !.stage = "streaming"] \in Call
    BY <1>1, <1>2, BrowserAssumption DEF DownloadStages
  <2>2. call' \in [Calls -> Call]
    BY <1>13, <2>1, PutType DEF Partial
  <2> QED
    BY <1>13, <2>2 DEF Partial, TypeOK, Admission, Chromium, Web, Reuse
<1>14. CASE Broken(c)
  <2>1. call[c].part \in Versions
    BY <1>14 DEF Broken, At, ContentInv, Sound
  <2>2. PICK n \in 0..(Rest(c) - 1) :
            \/ /\ call[c].failures + 1 < Attempts
               /\ Put(c, [call[c] EXCEPT !.got = Streamed(c, n), !.part = 0,
                                         !.failures = @ + 1, !.stage = "pausing"])
            \/ Raise(c)
    BY <1>14 DEF Broken
  <2>3. Streamed(c, n) \in Content
    <3>1. Rest(c) \in Int
      BY <1>1, BrowserAssumption DEF Rest
    <3>2. n \in 0..Rest(c)
      BY <3>1
    <3> QED
      BY <1>1, <2>1, <3>2, StreamedContent
  <2>4. ASSUME call[c].failures + 1 < Attempts
        PROVE  [call[c] EXCEPT !.got = Streamed(c, n), !.part = 0, !.failures = @ + 1,
                               !.stage = "pausing"] \in Call
    <3>1. call[c].failures + 1 \in 0..(Attempts - 1) /\ 0 \in 0..MaxVersion
      BY <1>1, <2>4, BrowserAssumption DEF Call
    <3> QED
      BY <1>1, <2>3, <3>1 DEF Call
  <2>5. call' \in [Calls -> Call]
    BY <2>2, <2>4, RaiseType, PutType
  <2> QED
    BY <1>14, <2>5 DEF Broken, TypeOK, Admission, Chromium, Web, Reuse
<1>15. CASE Finish(c)
  <2>1. call[c].part \in Versions
    BY <1>15 DEF Finish, At, ContentInv, Sound
  <2>2. PICK n \in 0..Rest(c), declared \in BOOLEAN :
            LET file == [got |-> Streamed(c, n), declared |-> declared]
            IN  \/ Answer(c, file) /\ remembered' = file /\ held' = TRUE
                \/ Raise(c) /\ UNCHANGED Reuse
    BY <1>15 DEF Finish
  <2>3. [got |-> Streamed(c, n), declared |-> declared] \in Files
    BY <1>1, <2>1, StreamedContent DEF Files
  <2>4. call' \in [Calls -> Call] /\ remembered' \in Files /\ held' \in BOOLEAN
    BY <2>2, <2>3, AnswerType, RaiseType, PutType DEF Answer, TypeOK, Reuse
  <2> QED
    BY <1>15, <2>4 DEF Finish, TypeOK, Admission, Chromium
<1>16. CASE Overruns(c)
  <2>1. call' \in [Calls -> Call]
    BY <1>16, RaiseType DEF Overruns
  <2> QED
    BY <1>16, <2>1 DEF Overruns, TypeOK, Admission, Chromium, Web, Reuse
<1> QED
  BY <1>4, <1>5, <1>6, <1>7, <1>8, <1>9, <1>10, <1>11, <1>12, <1>13, <1>14, <1>15, <1>16 DEF Download

World == Forget \/ Stop \/ Start \/ Replaced \/ CoolsDown \/ Deleted \/ Aged

LEMMA WorldType ==
    ASSUME TypeOK, World
    PROVE  TypeOK'
<1>1. CASE Forget
  <2>1. recent' \in 0..PerMinute
    BY <1>1, BrowserAssumption DEF Forget, TypeOK
  <2> QED
    BY <1>1, <2>1 DEF Forget, TypeOK, Chromium, Web, Reuse
<1>2. CASE Stop
  <2>1. call' \in [Calls -> Call] /\ free' \in [Slots -> 0..1] /\ recent' \in 0..PerMinute
    BY <1>2, IdleType, BrowserAssumption DEF Stop
  <2>2. up' \in BOOLEAN /\ cooling' \in BOOLEAN /\ held' \in BOOLEAN
    BY <1>2 DEF Stop
  <2>3. strays' \in 0..1 /\ browsers' \subseteq Calls /\ version' \in Versions /\ remembered' \in Files
    BY <1>2, IdleType DEF Stop, TypeOK
  <2> QED
    BY <2>1, <2>2, <2>3 DEF TypeOK
<1>3. CASE Start
  BY <1>3 DEF Start, TypeOK, Admission, Chromium, Web, Reuse
<1>4. CASE Replaced
  <2>1. version' \in Versions
    BY <1>4, BrowserAssumption DEF Replaced, TypeOK, Versions
  <2> QED
    BY <1>4, <2>1 DEF Replaced, TypeOK, Admission, Chromium, Reuse
<1>5. CASE CoolsDown
  BY <1>5 DEF CoolsDown, TypeOK, Admission, Chromium, Reuse
<1>6. CASE Deleted
  BY <1>6 DEF Deleted, TypeOK, Admission, Chromium, Web
<1>7. CASE Aged
  BY <1>7, IdleType DEF Aged, TypeOK, Admission, Chromium, Web
<1> QED
  BY <1>1, <1>2, <1>3, <1>4, <1>5, <1>6, <1>7 DEF World

LEMMA TypeStep ==
    ASSUME TypeOK, ContentInv, SlotInv, Next
    PROVE  TypeOK'
BY PageType, AdmissionType, DownloadType, WorldType DEF Next, Served, World, Page, Download
-----------------------------------------------------------------------------
(* What is downloaded.                                                     *)

\* A step of one call leaves the others alone.
LEMMA OthersStay ==
    ASSUME TypeOK, NEW c \in Calls, Served(c)
    PROVE  \A d \in Calls \ {c} : call'[d] = call[d]
<1> SUFFICES ASSUME NEW d \in Calls \ {c}
             PROVE  call'[d] = call[d]
  OBVIOUS
<1>1. ASSUME NEW new, Put(c, new)
      PROVE  call'[d] = call[d]
  BY <1>1 DEF Put, TypeOK
<1>2. Retry(c) \/ Raise(c) => call'[d] = call[d]
  BY <1>1 DEF Retry, Raise, Answer
<1>3. CASE \/ Connect(c) \/ CallerLeaves(c) \/ CheckRate(c) \/ Acquire(c) \/ Leave(c) \/ Reply(c)
           \/ Launch(c) \/ Handshake(c) \/ Navigate(c) \/ Extract(c) \/ Exit(c)
  BY <1>1, <1>2, <1>3 DEF Connect, CallerLeaves, CheckRate, Acquire, Leave, Reply, Launch, Handshake,
                    Navigate, Extract, Exit, Go
<1>4. CASE \/ Check(c) \/ Look(c) \/ Pause(c) \/ NoAnswer(c) \/ Redirect(c) \/ TryLater(c)
           \/ Refused(c) \/ Whole(c) \/ Partial(c) \/ Broken(c) \/ Finish(c) \/ Overruns(c)
  BY <1>1, <1>2, <1>4 DEF Check, Look, Pause, NoAnswer, Redirect, TryLater, Refused, Whole, Partial,
                    Broken, Finish, Overruns, Go, Answer
<1> QED
  BY <1>3, <1>4 DEF Served

LEMMA PutAt ==
    ASSUME TypeOK, NEW c \in Calls, NEW new, Put(c, new)
    PROVE  call'[c] = new
BY DEF Put, TypeOK

LEMMA IdleSound == Sound(Idle)
BY DEF Sound, Idle

LEMMA RaiseSound ==
    ASSUME TypeOK, NEW c \in Calls, NEW file \in Files, Answer(c, file)
    PROVE  Sound(call'[c]) /\ call'[c].file = file
<1>1. call'[c] = [Idle EXCEPT !.stage = "leaving", !.background = call[c].background,
                              !.op = call[c].op, !.file = file]
  BY PutAt DEF Answer
<1> QED
  BY <1>1 DEF Sound, Idle

LEMMA GoSound ==
    ASSUME TypeOK, NEW c \in Calls, Sound(call[c]), NEW stage, stage # "streaming", Go(c, stage)
    PROVE  Sound(call'[c]) /\ call'[c].file = call[c].file
<1>1. call'[c] = [call[c] EXCEPT !.stage = stage] /\ call[c] \in Call
  BY PutAt DEF Go, TypeOK
<1> QED
  BY <1>1 DEF Sound, Call

LEMMA RetrySound ==
    ASSUME TypeOK, NEW c \in Calls, Sound(call[c]), Retry(c)
    PROVE  Sound(call'[c]) /\ call'[c].file \in {NoFile, call[c].file}
<1>1. CASE Raise(c)
  BY <1>1, RaiseSound, IdleType DEF Raise
<1>2. CASE Put(c, [call[c] EXCEPT !.failures = @ + 1, !.stage = "pausing"])
  <2>1. call'[c] = [call[c] EXCEPT !.failures = @ + 1, !.stage = "pausing"] /\ call[c] \in Call
    BY <1>2, PutAt DEF TypeOK
  <2> QED
    BY <2>1 DEF Sound, Call
<1> QED
  BY <1>1, <1>2 DEF Retry

LEMMA NoFileIsOne == OneVersion(NoFile)
BY DEF OneVersion, NoFile

\* The file of a call that has not ended is NoFile, so only an answer sets it.
LEMMA ServedSound ==
    ASSUME TypeOK, ContentInv, FilesInv, NEW c \in Calls, Served(c)
    PROVE  Sound(call'[c]) /\ OneVersion(call'[c].file) /\ OneVersion(remembered')
<1> USE DEF ContentInv, FilesInv
<1>1. call[c] \in Call /\ Sound(call[c]) /\ OneVersion(call[c].file) /\ OneVersion(remembered)
  BY DEF TypeOK
<1> DEFINE Fine == Sound(call'[c]) /\ OneVersion(call'[c].file)
<1>2. ASSUME NEW stage, stage # "streaming", Go(c, stage)
      PROVE  Fine
  BY <1>1, <1>2, GoSound
<1>3. Raise(c) => Fine
  BY RaiseSound, NoFileIsOne, IdleType DEF Raise
<1>4. Retry(c) => Fine
  BY <1>1, RetrySound, NoFileIsOne
<1>5. ASSUME NEW stage, stage # "streaming", Put(c, [Idle EXCEPT !.stage = stage])
      PROVE  Fine
  <2>1. call'[c] = [Idle EXCEPT !.stage = stage]
    BY <1>5, PutAt
  <2>2. Sound(call'[c]) /\ call'[c].file = NoFile
    BY <1>5, <2>1 DEF Sound, Idle
  <2> QED
    BY <2>2, NoFileIsOne
<1>6. CASE Connect(c)
  <2>1. CASE Go(c, "replying")
    BY <1>2, <1>6, <2>1 DEF Connect, Reuse
  <2>2. CASE \E op \in {"page", "download"}, b \in BOOLEAN :
                 Put(c, [Idle EXCEPT !.stage = "asked", !.op = op, !.background = b])
    <3>1. PICK op \in {"page", "download"}, b \in BOOLEAN :
                 Put(c, [Idle EXCEPT !.stage = "asked", !.op = op, !.background = b])
      BY <2>2
    <3>2. call'[c] = [Idle EXCEPT !.stage = "asked", !.op = op, !.background = b]
      BY <3>1, PutAt
    <3>3. Sound(call'[c]) /\ call'[c].file = NoFile
      BY <3>2 DEF Sound, Idle
    <3> QED
      BY <1>1, <1>6, <3>3, NoFileIsOne DEF Connect, Reuse
  <2> QED
    BY <1>1, <1>6, <2>1, <2>2 DEF Connect, Reuse
<1>7. CASE CallerLeaves(c)
  <2>1. call'[c] = [call[c] EXCEPT !.gone = TRUE]
    BY <1>7, PutAt DEF CallerLeaves
  <2>2. Sound(call'[c]) /\ call'[c].file = call[c].file
    BY <1>1, <2>1 DEF Sound, Call
  <2> QED
    BY <1>1, <1>7, <2>2 DEF CallerLeaves, Reuse
<1>8. CASE CheckRate(c) \/ Acquire(c) \/ Leave(c)
  BY <1>1, <1>2, <1>5, <1>8 DEF CheckRate, Acquire, Leave, Reuse
<1>9. CASE Reply(c)
  <2>1. call'[c] = Idle
    BY <1>9, PutAt DEF Reply
  <2> QED
    BY <1>1, <1>9, <2>1, IdleSound, NoFileIsOne DEF Reply, Idle, Reuse
<1>10. CASE Launch(c) \/ Handshake(c) \/ Navigate(c) \/ Extract(c) \/ Exit(c)
  <2>1. CASE Launch(c)
    BY <1>1, <1>3, <2>1 DEF Launch, Reuse
  <2>2. CASE Handshake(c)
    BY <1>1, <1>2, <1>3, <2>2 DEF Handshake, Reuse
  <2>3. CASE Navigate(c) \/ Extract(c) \/ Exit(c)
    BY <1>1, <1>2, <2>3 DEF Navigate, Extract, Exit, Reuse
  <2> QED
    BY <1>10, <2>1, <2>2, <2>3
<1>11. CASE Check(c)
  <2>1. Answer(c, remembered) => Fine
    BY <1>1, RaiseSound DEF TypeOK
  <2>2. Fine
    BY <1>2, <1>3, <1>11, <2>1 DEF Check
  <2>3. OneVersion(remembered')
    BY <1>1, <1>11, NoFileIsOne DEF Check, Reuse
  <2> QED
    BY <2>2, <2>3
<1>12. CASE Look(c) \/ Pause(c) \/ Refused(c) \/ Overruns(c)
  BY <1>1, <1>2, <1>3, <1>12 DEF Look, Pause, Refused, Overruns, Reuse
<1>13. CASE NoAnswer(c) \/ TryLater(c)
  BY <1>1, <1>4, <1>13 DEF NoAnswer, TryLater, Reuse
<1>14. CASE Redirect(c)
  <2>1. CASE Raise(c)
    BY <1>1, <1>3, <1>14, <2>1 DEF Redirect, Reuse
  <2>2. CASE Put(c, [call[c] EXCEPT !.redirects = @ + 1, !.stage = "looking"])
    <3>1. call'[c] = [call[c] EXCEPT !.redirects = @ + 1, !.stage = "looking"]
      BY <2>2, PutAt
    <3>2. Sound(call'[c]) /\ call'[c].file = call[c].file
      BY <1>1, <3>1 DEF Sound, Call
    <3> QED
      BY <1>1, <1>14, <3>2 DEF Redirect, Reuse
  <2> QED
    BY <1>14, <2>1, <2>2 DEF Redirect
<1>15. CASE Whole(c)
  <2>1. PICK v \in {0, version} :
            Put(c, [call[c] EXCEPT !.got = <<>>, !.validator = v, !.part = version,
                                   !.stage = "streaming"])
    BY <1>15 DEF Whole
  <2>2. call'[c] = [call[c] EXCEPT !.got = <<>>, !.validator = v, !.part = version,
                                   !.stage = "streaming"]
    BY <2>1, PutAt
  <2>3. Sound(call'[c]) /\ call'[c].file = call[c].file
    BY <1>1, <2>1, <2>2, EmptyContent DEF Sound, Call, TypeOK
  <2> QED
    BY <1>1, <1>15, <2>3 DEF Whole, Reuse
<1>16. CASE Partial(c)
  <2>1. call'[c] = [call[c] EXCEPT !.part = version, !.stage = "streaming"]
    BY <1>16, PutAt DEF Partial
  <2>2. Sound(call'[c]) /\ call'[c].file = call[c].file
    BY <1>1, <1>16, <2>1 DEF Sound, Call, TypeOK, Partial, Resumes
  <2> QED
    BY <1>1, <1>16, <2>2 DEF Partial, Reuse
<1>17. ASSUME NEW n \in 0..Rest(c), call[c].stage = "streaming"
       PROVE  /\ Streamed(c, n) \in Content
              /\ Len(Streamed(c, n)) = Len(call[c].got) + n
              /\ \A i \in 1..Len(Streamed(c, n)) : Streamed(c, n)[i] = call[c].part
  <2>1. call[c].got \in Content /\ call[c].part \in Versions
    BY <1>1, <1>17 DEF Sound, Call
  <2>2. call[c].got \in Seq(Versions) /\ Len(call[c].got) \in Nat
    BY <2>1, ContentIsSeq
  <2>3. \A i \in 1..Len(call[c].got) : call[c].got[i] = call[c].part
    BY <1>1, <1>17 DEF Sound
  <2>4. /\ Streamed(c, n) \in Content
        /\ Len(Streamed(c, n)) = Len(call[c].got) + n
        /\ \A i \in 1..Len(Streamed(c, n)) :
               Streamed(c, n)[i] = IF i <= Len(call[c].got) THEN call[c].got[i]
                                                            ELSE call[c].part
    BY <2>1, StreamedContent
  <2>5. Len(Streamed(c, n)) \in Nat
    BY <2>4, ContentIsSeq
  <2> QED
    BY <2>2, <2>3, <2>4, <2>5
<1>18. Len(call[c].got) \in 0..Chunks /\ Rest(c) \in Nat
  <2>1. call[c].got \in Seq(Versions) /\ Len(call[c].got) <= Chunks
    BY <1>1, ContentIsSeq DEF Call
  <2> QED
    BY <2>1, BrowserAssumption DEF Rest
<1>19. CASE Broken(c)
  <2>1. PICK n \in 0..(Rest(c) - 1) :
            \/ Put(c, [call[c] EXCEPT !.got = Streamed(c, n), !.part = 0,
                                      !.failures = @ + 1, !.stage = "pausing"])
            \/ Raise(c)
    BY <1>19 DEF Broken
  <2>2. ASSUME Put(c, [call[c] EXCEPT !.got = Streamed(c, n), !.part = 0,
                                      !.failures = @ + 1, !.stage = "pausing"])
        PROVE  Fine
    <3>1. n \in 0..Rest(c) /\ call[c].stage = "streaming"
      BY <1>18, <1>19 DEF Broken, At
    <3>2. \A i \in 1..Len(Streamed(c, n)) : Streamed(c, n)[i] = call[c].part
      BY <1>17, <3>1
    <3>3. call[c].validator \in {0, call[c].part}
      BY <1>1, <3>1 DEF Sound
    <3>4. call'[c] = [call[c] EXCEPT !.got = Streamed(c, n), !.part = 0,
                                     !.failures = @ + 1, !.stage = "pausing"]
      BY <2>2, PutAt
    <3>5. /\ call'[c].got = Streamed(c, n) /\ call'[c].validator = call[c].validator
          /\ call'[c].stage = "pausing" /\ call'[c].file = call[c].file
      BY <1>1, <3>4 DEF Call
    <3> QED
      BY <1>1, <3>2, <3>3, <3>5 DEF Sound
  <2> QED
    BY <1>1, <1>3, <1>19, <2>1, <2>2 DEF Broken, Reuse
<1>20. CASE Finish(c)
  <2>1. PICK n \in 0..Rest(c), declared \in BOOLEAN :
            /\ declared => n = Rest(c)
            /\ LET file == [got |-> Streamed(c, n), declared |-> declared]
               IN  \/ Answer(c, file) /\ remembered' = file
                   \/ Raise(c) /\ UNCHANGED Reuse
    BY <1>20 DEF Finish
  <2> DEFINE file == [got |-> Streamed(c, n), declared |-> declared]
  <2>2. call[c].stage = "streaming"
    BY <1>20 DEF Finish, At
  <2>3. /\ Streamed(c, n) \in Content
        /\ Len(Streamed(c, n)) = Len(call[c].got) + n
        /\ \A i \in 1..Len(Streamed(c, n)) : Streamed(c, n)[i] = call[c].part
    BY <1>17, <2>2
  <2>4. file \in Files
    BY <2>3 DEF Files
  <2>5. declared => Len(Streamed(c, n)) = Chunks
    BY <1>18, <2>1, <2>3, BrowserAssumption DEF Rest
  <2>6. OneVersion(file)
    BY <2>3, <2>5 DEF OneVersion
  <2>7. Answer(c, file) => Fine
    BY <2>4, <2>6, RaiseSound
  <2> QED
    BY <1>1, <1>3, <2>1, <2>6, <2>7 DEF Reuse
<1> QED
  BY <1>6, <1>7, <1>8, <1>9, <1>10, <1>11, <1>12, <1>13, <1>14, <1>15, <1>16, <1>19, <1>20 DEF Served
-----------------------------------------------------------------------------
(* Slots and browsers.                                                     *)

\* What a step of a call means to the slots.
Steady(c) ==
    /\ free' = free
    /\ \A s \in Slots : Holds(c, s)' <=> Holds(c, s)

Takes(c) ==
    \E s \in Slots :
        /\ free[s] > 0 /\ free' = [free EXCEPT ![s] = @ - 1]
        /\ \A t \in Slots : ~Holds(c, t) /\ (Holds(c, t)' <=> t = s)

Gives(c) ==
    \E s \in Slots :
        /\ Holds(c, s) /\ free' = [free EXCEPT ![s] = @ + 1]
        /\ \A t \in Slots : ~Holds(c, t)'

\* Of what a call is, its stage and its slot matter here.
LEMMA HoldsBy ==
    ASSUME NEW c
    PROVE  /\ \A s : Holds(c, s) <=>
                  /\ call[c].stage \in PageStages \cup DownloadStages \cup {"leaving"}
                  /\ s = IF call[c].background THEN "background" ELSE "interactive"
           /\ \A s : Holds(c, s)' <=>
                  /\ call'[c].stage \in PageStages \cup DownloadStages \cup {"leaving"}
                  /\ s = IF call'[c].background THEN "background" ELSE "interactive"
BY DEF Holds, Slot

LEMMA AnswerIs ==
    ASSUME TypeOK, NEW c \in Calls, NEW file \in Files, Answer(c, file)
    PROVE  /\ call'[c].stage = "leaving"
           /\ call'[c].background = call[c].background /\ call'[c].op = call[c].op
<1>1. call'[c] = [Idle EXCEPT !.stage = "leaving", !.background = call[c].background,
                              !.op = call[c].op, !.file = file]
  BY PutAt DEF Answer
<1> QED
  BY <1>1 DEF Idle

LEMMA GoIs ==
    ASSUME TypeOK, NEW c \in Calls, NEW stage, Go(c, stage)
    PROVE  /\ call'[c].stage = stage
           /\ call'[c].background = call[c].background /\ call'[c].op = call[c].op
<1>1. call'[c] = [call[c] EXCEPT !.stage = stage] /\ call[c] \in Call
  BY PutAt DEF Go, TypeOK
<1> QED
  BY <1>1 DEF Call

\* A download's step that does not answer stays a download.
LEMMA DownloadIs ==
    ASSUME TypeOK, NEW c \in Calls, Download(c)
    PROVE  /\ call[c].stage \in DownloadStages
           /\ call'[c].stage \in DownloadStages \cup {"leaving"}
           /\ call'[c].background = call[c].background /\ call'[c].op = call[c].op
           /\ UNCHANGED <<free, browsers>>
<1> DEFINE Goal == /\ call'[c].stage \in DownloadStages \cup {"leaving"}
                   /\ call'[c].background = call[c].background /\ call'[c].op = call[c].op
<1>1. call[c] \in Call
  BY DEF TypeOK
<1>2. Raise(c) => Goal
  BY AnswerIs, IdleType DEF Raise
<1>3. ASSUME NEW stage \in DownloadStages, Go(c, stage)
      PROVE  Goal
  BY <1>3, GoIs
<1>4. ASSUME NEW new, Put(c, new), new.stage \in DownloadStages,
             new.background = call[c].background, new.op = call[c].op
      PROVE  Goal
  BY <1>4, PutAt
<1>5. Retry(c) => Goal
  <2>1. [call[c] EXCEPT !.failures = @ + 1, !.stage = "pausing"].stage = "pausing"
    BY <1>1 DEF Call
  <2> QED
    BY <1>1, <1>2, <1>4, <2>1 DEF Retry, Call, DownloadStages
<1>6. /\ call[c].stage \in DownloadStages
      /\ UNCHANGED <<free, browsers>>
  BY DEF Download, CallerLeaves, Check, Look, Pause, NoAnswer, Redirect, TryLater, Refused, Whole, Partial,
         Broken, Finish, Overruns, At, DownloadStages, Admission, Chromium
<1> SUFFICES Goal
  BY <1>6
<1> HIDE DEF Goal
<1>7. CASE CallerLeaves(c)
  BY <1>1, <1>4, <1>7 DEF CallerLeaves, Call, DownloadStages
<1>8. CASE Check(c)
  <2>1. Answer(c, remembered) => Goal
    BY AnswerIs DEF Goal, TypeOK
  <2> QED
    BY <1>2, <1>3, <1>8, <2>1 DEF Check, DownloadStages
<1>9. CASE Look(c) \/ Pause(c) \/ Refused(c) \/ Overruns(c)
  BY <1>2, <1>3, <1>9 DEF Look, Pause, Refused, Overruns, DownloadStages
<1>10. CASE NoAnswer(c) \/ TryLater(c)
  BY <1>5, <1>10 DEF NoAnswer, TryLater
<1>11. CASE Redirect(c)
  BY <1>1, <1>2, <1>4, <1>11 DEF Redirect, Call, DownloadStages
<1>12. CASE Whole(c) \/ Partial(c)
  BY <1>1, <1>4, <1>12 DEF Whole, Partial, Call, DownloadStages
<1>13. CASE Broken(c)
  BY <1>1, <1>2, <1>4, <1>13 DEF Broken, Call, DownloadStages
<1>14. CASE Finish(c)
  <2>1. PICK n \in 0..Rest(c), declared \in BOOLEAN :
            \/ Answer(c, [got |-> Streamed(c, n), declared |-> declared])
            \/ Raise(c)
    BY <1>14 DEF Finish
  <2>2. ASSUME NEW file, Answer(c, file)
        PROVE  Goal
    <3>1. call'[c] = [Idle EXCEPT !.stage = "leaving", !.background = call[c].background,
                                  !.op = call[c].op, !.file = file]
      BY <2>2, PutAt DEF Answer
    <3> QED
      BY <3>1 DEF Idle, Goal
  <2> QED
    BY <1>2, <2>1, <2>2
<1> QED
  BY <1>7, <1>8, <1>9, <1>10, <1>11, <1>12, <1>13, <1>14 DEF Download

\* A page call's step stays within the page, and its browser within the call.
LEMMA PageIs ==
    ASSUME TypeOK, PagesInv, NEW c \in Calls, Page(c)
    PROVE  /\ call[c].stage \in PageStages
           /\ call'[c].stage \in PageStages \cup {"leaving"}
           /\ call'[c].background = call[c].background /\ call'[c].op = call[c].op
           /\ UNCHANGED free
           /\ browsers' \ {c} = browsers \ {c}
           /\ c \in browsers' => call'[c].stage \in PageStages
<1>1. CASE Launch(c)
  BY <1>1, AnswerIs, IdleType DEF Launch, Raise, At, PageStages, Admission
<1>2. CASE Handshake(c)
  BY <1>2, AnswerIs, IdleType, GoIs DEF Handshake, Raise, At, PageStages, Admission, Chromium
<1>3. CASE Navigate(c) \/ Extract(c)
  BY <1>3, GoIs DEF Navigate, Extract, At, PageStages, Admission, Chromium
<1>4. CASE Exit(c)
  BY <1>4, GoIs DEF Exit, At, PageStages, Admission
<1> QED
  BY <1>1, <1>2, <1>3, <1>4 DEF Page

LEMMA ServedSlots ==
    ASSUME TypeOK, PagesInv, NEW c \in Calls, Served(c)
    PROVE  Steady(c) \/ Takes(c) \/ Gives(c)
<1>1. CASE Page(c)
  BY <1>1, PageIs, HoldsBy DEF Steady
<1>2. CASE Download(c)
  BY <1>2, DownloadIs, HoldsBy DEF Steady
<1>3. ASSUME NEW stage, Put(c, [Idle EXCEPT !.stage = stage])
      PROVE  call'[c].stage = stage
  <2>1. call'[c] = [Idle EXCEPT !.stage = stage]
    BY <1>3, PutAt
  <2> QED
    BY <2>1 DEF Idle
<1>4. CASE Connect(c)
  <2>1. call'[c].stage \in {"asked", "replying"}
    <3>1. CASE Go(c, "replying")
      BY <3>1, GoIs
    <3>2. CASE \E op \in {"page", "download"}, b \in BOOLEAN :
                   Put(c, [Idle EXCEPT !.stage = "asked", !.op = op, !.background = b])
      <4>1. PICK op \in {"page", "download"}, b \in BOOLEAN :
                   call'[c] = [Idle EXCEPT !.stage = "asked", !.op = op, !.background = b]
        BY <3>2, PutAt
      <4> QED
        BY <4>1 DEF Idle
    <3> QED
      BY <1>4, <3>1, <3>2 DEF Connect
  <2> QED
    BY <1>4, <2>1, HoldsBy DEF Connect, At, Steady, PageStages, DownloadStages, Admission
<1>5. CASE CheckRate(c)
  BY <1>3, <1>5, GoIs, HoldsBy DEF CheckRate, At, Steady, PageStages, DownloadStages
<1>6. CASE Acquire(c)
  <2>1. CASE free[Slot(c)] = 0 /\ Put(c, [Idle EXCEPT !.stage = "replying"]) /\ UNCHANGED free
    BY <1>3, <1>6, <2>1, HoldsBy DEF Acquire, At, Steady, PageStages, DownloadStages
  <2>2. CASE /\ free[Slot(c)] > 0 /\ free' = [free EXCEPT ![Slot(c)] = @ - 1]
             /\ Go(c, IF call[c].op = "page" THEN "launching" ELSE "checking")
    <3>1. \A t \in Slots : ~Holds(c, t) /\ (Holds(c, t)' <=> t = Slot(c))
      BY <1>6, <2>2, GoIs, HoldsBy DEF Acquire, At, Slot, PageStages, DownloadStages
    <3> QED
      BY <2>2, <3>1 DEF Takes, Slot, Slots
  <2> QED
    BY <1>6, <2>1, <2>2 DEF Acquire
<1>7. CASE Leave(c)
  <2>1. Holds(c, Slot(c)) /\ \A t \in Slots : ~Holds(c, t)'
    BY <1>3, <1>7, HoldsBy DEF Leave, At, Holds, PageStages, DownloadStages
  <2> QED
    BY <1>7, <2>1 DEF Leave, Gives, Slot, Slots
<1>8. CASE Reply(c)
  <2>1. call'[c].stage = "idle"
    BY <1>8, PutAt DEF Reply, Idle
  <2> QED
    BY <1>8, <2>1, HoldsBy DEF Reply, At, Steady, PageStages, DownloadStages, Admission
<1> QED
  BY <1>1, <1>2, <1>4, <1>5, <1>6, <1>7, <1>8 DEF Served, Page, Download

LEMMA SlotStep ==
    ASSUME TypeOK, PagesInv, SlotInv, NEW c \in Calls, Served(c)
    PROVE  SlotInv'
<1>1. \A d \in Calls \ {c}, s \in Slots : Holds(d, s)' <=> Holds(d, s)
  BY OthersStay, HoldsBy
<1>2. CASE Steady(c)
  BY <1>1, <1>2 DEF Steady, SlotInv
<1>3. CASE Takes(c)
  <2>1. PICK s \in Slots : /\ free[s] > 0 /\ free' = [free EXCEPT ![s] = @ - 1]
                           /\ \A t \in Slots : ~Holds(c, t) /\ (Holds(c, t)' <=> t = s)
    BY <1>3 DEF Takes
  <2>2. free[s] = 1 /\ free'[s] = 0 /\ \A t \in Slots \ {s} : free'[t] = free[t]
    BY <2>1 DEF TypeOK
  <2>3. \A d \in Calls : ~Holds(d, s)
    BY <2>2 DEF SlotInv
  <2> QED
    BY <1>1, <2>1, <2>2, <2>3 DEF SlotInv
<1>4. CASE Gives(c)
  <2>1. PICK s \in Slots : /\ Holds(c, s) /\ free' = [free EXCEPT ![s] = @ + 1]
                           /\ \A t \in Slots : ~Holds(c, t)'
    BY <1>4 DEF Gives
  <2>2. \A t \in Slots \ {s} : free'[t] = free[t]
    BY <2>1 DEF TypeOK
  <2>3. \A d \in Calls \ {c} : ~Holds(d, s)
    BY <2>1 DEF SlotInv
  <2> QED
    BY <1>1, <2>1, <2>2, <2>3 DEF SlotInv
<1> QED
  BY <1>2, <1>3, <1>4, ServedSlots

LEMMA PagesStep ==
    ASSUME TypeOK, PagesInv, NEW c \in Calls, Served(c)
    PROVE  PagesInv'
<1> DEFINE Own == /\ call'[c].op = "page" => ~call'[c].background
                  /\ call'[c].stage \in PageStages => call'[c].op = "page"
                  /\ c \in browsers' => call'[c].stage \in PageStages
<1>1. SUFFICES Own /\ browsers' \ {c} = browsers \ {c}
  BY <1>1, OthersStay DEF PagesInv
<1>2. CASE Page(c)
  BY <1>2, PageIs DEF PagesInv
<1>3. CASE Download(c)
  BY <1>3, DownloadIs DEF PagesInv, PageStages, DownloadStages
<1>4. ASSUME NEW stage \in {"replying"}, Put(c, [Idle EXCEPT !.stage = stage])
      PROVE  call'[c].stage \notin PageStages /\ ~call'[c].background
  <2>1. call'[c] = [Idle EXCEPT !.stage = stage]
    BY <1>4, PutAt
  <2> QED
    BY <2>1 DEF Idle, PageStages
<1>5. CASE Connect(c)
  <2>1. CASE Go(c, "replying")
    <3>1. call'[c].stage = "replying" /\ call'[c].background = call[c].background
          /\ call'[c].op = call[c].op
      BY <2>1, GoIs
    <3>2. call[c].stage = "idle" /\ UNCHANGED browsers
      BY <1>5 DEF Connect, At, Chromium
    <3> QED
      BY <3>1, <3>2 DEF PagesInv, PageStages
  <2>2. CASE \E op \in {"page", "download"}, b \in BOOLEAN :
                 /\ b => op = "download"
                 /\ Put(c, [Idle EXCEPT !.stage = "asked", !.op = op, !.background = b])
    <3>1. PICK op \in {"page", "download"}, b \in BOOLEAN :
                 /\ b => op = "download"
                 /\ call'[c] = [Idle EXCEPT !.stage = "asked", !.op = op, !.background = b]
      BY <2>2, PutAt
    <3>2. call'[c].stage = "asked" /\ call'[c].op = op /\ call'[c].background = b
      BY <3>1 DEF Idle
    <3> QED
      BY <1>5, <3>1, <3>2 DEF Connect, At, PagesInv, PageStages, Chromium
  <2> QED
    BY <1>5, <2>1, <2>2 DEF Connect
<1>6. CASE CheckRate(c)
  BY <1>4, <1>6, GoIs DEF CheckRate, At, PagesInv, PageStages, Chromium
<1>7. CASE Acquire(c)
  BY <1>4, <1>7, GoIs DEF Acquire, At, PagesInv, PageStages, Chromium
<1>8. CASE Leave(c)
  BY <1>4, <1>8 DEF Leave, At, PagesInv, PageStages, Chromium
<1>9. CASE Reply(c)
  <2>1. call'[c].stage = "idle" /\ call'[c].background = FALSE
    BY <1>9, PutAt DEF Reply, Idle
  <2> QED
    BY <1>9, <2>1 DEF Reply, At, PagesInv, PageStages, Chromium
<1> QED
  BY <1>2, <1>3, <1>5, <1>6, <1>7, <1>8, <1>9 DEF Served, Page, Download
-----------------------------------------------------------------------------
(* The theorems.                                                           *)

LEMMA InitInv == Init => IInv
<1> SUFFICES ASSUME Init
             PROVE  IInv
  OBVIOUS
<1>1. \A c \in Calls : call[c] = Idle
  BY DEF Init
<1>2. ContentInv
  BY <1>1, IdleSound DEF ContentInv
<1>3. FilesInv
  BY <1>1, NoFileIsOne DEF FilesInv, Idle, Init
<1>4. SlotInv
  BY <1>1, HoldsBy DEF SlotInv, Idle, PageStages, DownloadStages
<1>5. PagesInv
  BY <1>1 DEF PagesInv, Idle, PageStages, Init
<1> QED
  BY <1>2, <1>3, <1>4, <1>5, InitType DEF IInv

LEMMA ServedInv ==
    ASSUME IInv, NEW c \in Calls, Served(c)
    PROVE  (ContentInv /\ FilesInv /\ SlotInv /\ PagesInv)'
<1> USE DEF IInv
<1>1. \A d \in Calls \ {c} : call'[d] = call[d]
  BY OthersStay
<1>2. Sound(call'[c]) /\ OneVersion(call'[c].file) /\ OneVersion(remembered')
  BY ServedSound
<1>3. \A d \in Calls : Sound(call'[d])
  BY <1>1, <1>2 DEF ContentInv
<1>4. \A d \in Calls : OneVersion(call'[d].file)
  BY <1>1, <1>2 DEF FilesInv
<1> QED
  BY <1>2, <1>3, <1>4, SlotStep, PagesStep DEF ContentInv, FilesInv

LEMMA WorldInv ==
    ASSUME IInv, World
    PROVE  (ContentInv /\ FilesInv /\ SlotInv /\ PagesInv)'
<1> USE DEF IInv
<1>1. CASE UNCHANGED <<call, free, browsers>> /\ remembered' \in {remembered, NoFile}
  <2>1. ContentInv' /\ FilesInv'
    BY <1>1, NoFileIsOne DEF ContentInv, FilesInv
  <2>2. SlotInv'
    BY <1>1 DEF SlotInv, Holds, Slot
  <2>3. PagesInv'
    BY <1>1 DEF PagesInv
  <2> QED
    BY <2>1, <2>2, <2>3
<1>2. CASE Stop
  <2>1. /\ \A c \in Calls : call'[c] = Idle
        /\ browsers' = {} /\ remembered' = NoFile
    BY <1>2 DEF Stop
  <2>2. ContentInv'
    BY <2>1, IdleSound DEF ContentInv
  <2>3. FilesInv'
    BY <2>1, NoFileIsOne DEF FilesInv, Idle
  <2>4. SlotInv'
    BY <2>1, HoldsBy DEF SlotInv, Idle, PageStages, DownloadStages
  <2>5. PagesInv'
    BY <2>1 DEF PagesInv, Idle, PageStages
  <2> QED
    BY <2>2, <2>3, <2>4, <2>5
<1>3. CASE Forget \/ Start \/ Replaced \/ CoolsDown \/ Deleted \/ Aged
  BY <1>1, <1>3 DEF Forget, Start, Replaced, CoolsDown, Deleted, Aged,
                    Admission, Chromium, Web, Reuse
<1> QED
  BY <1>2, <1>3 DEF World

LEMMA NextInv == IInv /\ [Next]_vars => IInv'
<1> SUFFICES ASSUME IInv, [Next]_vars
             PROVE  IInv'
  OBVIOUS
<1>1. CASE Next
  <2>1. TypeOK'
    BY <1>1, TypeStep DEF IInv
  <2>2. (ContentInv /\ FilesInv /\ SlotInv /\ PagesInv)'
    BY <1>1, ServedInv, WorldInv DEF Next, World
  <2> QED
    BY <2>1, <2>2 DEF IInv
<1>2. CASE UNCHANGED vars
  BY <1>2 DEF vars, IInv, TypeOK, ContentInv, FilesInv, SlotInv, Holds, Slot, PagesInv
<1> QED
  BY <1>1, <1>2

\* Whatever the connections, the limits, the length of the resource and the number of times
\* it is replaced: the invariant that relates a content to its validator, a slot to its
\* holder and a browser to its call holds in every reachable state.
THEOREM Invariance == Spec => []IInv
BY InitInv, NextInv, PTL DEF Spec

\* Every variable keeps to its type.
THEOREM TypeCorrect == Spec => []TypeOK
<1>1. IInv => TypeOK
  BY DEF IInv
<1> QED
  BY <1>1, Invariance, PTL

\* download.py's promise: what is answered is one version of the resource.
THEOREM DownloadsAreOneVersion == Spec => []ArtifactIsOneVersion
<1>1. IInv => ArtifactIsOneVersion
  <2> SUFFICES ASSUME IInv, NEW c \in Calls
               PROVE  /\ \A i, j \in DOMAIN call[c].file.got :
                             call[c].file.got[i] = call[c].file.got[j]
                      /\ call[c].file.declared => Len(call[c].file.got) = Chunks
    BY DEF ArtifactIsOneVersion
  <2>1. call[c].file.got \in Content /\ OneVersion(call[c].file)
    BY DEF IInv, TypeOK, Call, Files, FilesInv
  <2>2. call[c].file.got \in Seq(Versions)
    BY <2>1, ContentIsSeq
  <2>3. DOMAIN call[c].file.got = 1..Len(call[c].file.got)
    BY <2>2
  <2> QED
    BY <2>1, <2>3 DEF OneVersion
<1> QED
  BY <1>1, Invariance, PTL

\* BrowserCall's promise: a Chromium that came up lives within its call and the
\* interactive slot.  One that hangs while it starts (browser.py, wait_until_ready)
\* is left behind and counted in strays, of which this says nothing.
THEOREM BrowsersEndWithCalls == Spec => []BrowserEndsWithCall
<1>1. IInv => BrowserEndsWithCall
  <2> SUFFICES ASSUME IInv
               PROVE  BrowserEndsWithCall
    OBVIOUS
  <2>1. \A c \in browsers : c \in Calls /\ call[c].stage \in PageStages
                            /\ Holds(c, "interactive")
    BY DEF IInv, TypeOK, PagesInv, Holds, Slot
  <2>2. "interactive" \in Slots
    BY DEF Slots
  <2> QED
    BY <2>1, <2>2 DEF IInv, SlotInv, BrowserEndsWithCall, PageStages
<1> QED
  BY <1>1, Invariance, PTL

-----------------------------------------------------------------------------
(* The engines of image-processing, for any sizes: the whole geometry of   *)
(* an edit.                                                                *)

\* Cardinality is the same operator in every module.
LEMMA SameCount ==
    ASSUME NEW S
    PROVE  Images!Cardinality(S) = Cardinality(S)
BY DEF Images!Cardinality, Cardinality

\* What division gives, and how a quotient is bounded.
LEMMA Division ==
    ASSUME NEW n \in Int, NEW d \in Nat \ {0}
    PROVE  /\ n \div d \in Int /\ n % d \in Int
           /\ n = (d * (n \div d)) + (n % d)
           /\ 0 <= n % d /\ n % d < d
OBVIOUS

LEMMA Quotient ==
    ASSUME NEW n \in Int, NEW d \in Nat \ {0}, NEW q \in Int, NEW r \in 0 .. d - 1, n = d * q + r
    PROVE  n \div d = q /\ n % d = r
OBVIOUS

LEMMA Below ==
    ASSUME NEW n \in Int, NEW d \in Nat \ {0}, NEW b \in Int, n < d * (b + 1)
    PROVE  n \div d <= b
OBVIOUS

\* Rounding.
LEMMA HalfEvenType ==
    ASSUME NEW n \in Nat, NEW d \in Nat \ {0}
    PROVE  Images!HalfEven(n, d) \in Nat
<1>1. n \div d \in Nat
  OBVIOUS
<1> QED
  BY <1>1 DEF Images!HalfEven

LEMMA HalfEvenExact ==
    ASSUME NEW n \in Nat, NEW d \in Nat \ {0}, n % d = 0
    PROVE  Images!HalfEven(n, d) = n \div d
BY DEF Images!HalfEven

LEMMA HalfUpExact ==
    ASSUME NEW n \in Nat, NEW d \in Nat \ {0}, n % d = 0, n >= d
    PROVE  Images!HalfUp(n, d) = n \div d
<1> DEFINE q == n \div d
<1>1. q \in Int /\ n = d * q
  BY Division
<1>2. q >= 1
  BY <1>1
<1> HIDE DEF q
<1>3. 2 * n + d = (2 * d) * q + d
  BY <1>1
<1>4. 2 * n + d \in Int /\ 2 * d \in Nat \ {0} /\ d \in 0 .. (2 * d) - 1
  OBVIOUS
<1>5. (2 * n + d) \div (2 * d) = q
  BY <1>1, <1>3, <1>4, Quotient
<1> QED
  BY <1>1, <1>2, <1>5 DEF Images!HalfUp, Images!Larger, q

LEMMA HalfUpBound ==
    ASSUME NEW n \in Nat, NEW d \in Nat \ {0}, NEW b \in Nat \ {0}, n <= d * b
    PROVE  Images!HalfUp(n, d) \in 1 .. b
<1> DEFINE m == 2 * n + d
           e == 2 * d
<1>1. m \in Nat /\ e \in Nat \ {0}
  OBVIOUS
<1>2. m < e * (b + 1)
  <2>1. e * (b + 1) = 2 * (d * b) + 2 * d
    OBVIOUS
  <2>2. d * b \in Nat
    OBVIOUS
  <2> QED
    BY <2>1, <2>2
<1> HIDE DEF m, e
<1>3. m \div e <= b /\ m \div e \in Int
  BY <1>1, <1>2, Below, Division
<1>4. Images!HalfUp(n, d) = Images!Larger(1, m \div e)
  BY DEF Images!HalfUp, m, e
<1> QED
  BY <1>3, <1>4 DEF Images!Larger

LEMMA Half ==
    ASSUME NEW n \in Nat
    PROVE  /\ Images!HalfEven(n, 2) \in 0 .. n
           /\ n % 2 = 0 => Images!HalfEven(n, 2) = n \div 2
BY DEF Images!HalfEven

\* Images.
LEMMA ImageFields ==
    ASSUME NEW i
    PROVE  i \in Images!Image <=>
             /\ i = [w |-> i.w, h |-> i.h, x |-> i.x, y |-> i.y, o |-> i.o]
             /\ i.w \in Images!Side /\ i.h \in Images!Side /\ i.o \in {1, 6}
             /\ \/ i.x \in 0 .. i.w - 1 /\ i.y \in 0 .. i.h - 1
                \/ i.x = -1 /\ i.y = -1
<1>1. \A w, h \in Images!Side : 0 .. w - 1 \subseteq -1 .. MaxSide - 1
  BY ImageAssumption DEF Images!Side
<1>2. -1 \in -1 .. MaxSide - 1
  BY ImageAssumption
<1> QED
  BY <1>1, <1>2 DEF Images!Image

LEMMA RefusedIsNoImage ==
    Images!Refused \notin Images!Image /\ \A i \in Images!Image : i # Images!Refused
BY ImageAssumption DEF Images!Refused, Images!Image, Images!Side

LEMMA ImageIsRecord ==
    ASSUME NEW i \in Images!Image
    PROVE  i \in [w : Int, h : Int, x : Int, y : Int, o : {1, 6}]
BY ImageAssumption DEF Images!Image, Images!Side

LEMMA NewMark ==
    ASSUME NEW i \in [w : Int, h : Int, x : Int, y : Int, o : {1, 6}],
           NEW w \in Int, NEW h \in Int, NEW x \in Int, NEW y \in Int
    PROVE  [i EXCEPT !.x = x, !.y = y] = [w |-> i.w, h |-> i.h, x |-> x, y |-> y, o |-> i.o]
<1>1. ASSUME NEW j, j = [i EXCEPT !.x = x, !.y = y]
      PROVE  j = [w |-> i.w, h |-> i.h, x |-> x, y |-> y, o |-> i.o]
  BY <1>1
<1> QED
  BY <1>1, Zenon

LEMMA NewSize ==
    ASSUME NEW i \in [w : Int, h : Int, x : Int, y : Int, o : {1, 6}],
           NEW w \in Int, NEW h \in Int, NEW x \in Int, NEW y \in Int
    PROVE  [i EXCEPT !.w = w, !.h = h] = [w |-> w, h |-> h, x |-> i.x, y |-> i.y, o |-> i.o]
<1>1. ASSUME NEW j, j = [i EXCEPT !.w = w, !.h = h]
      PROVE  j = [w |-> w, h |-> h, x |-> i.x, y |-> i.y, o |-> i.o]
  BY <1>1
<1> QED
  BY <1>1, Zenon

LEMMA SizedIs ==
    ASSUME NEW i \in Images!Image, NEW w \in Int, NEW h \in Int
    PROVE  Images!Sized(i, w, h) = IF w < 1 \/ h < 1 THEN Images!Refused
                            ELSE IF w = i.w /\ h = i.h THEN i
                            ELSE [w |-> w, h |-> h, x |-> -1, y |-> -1, o |-> i.o]
<1> DEFINE blank == [w |-> i.w, h |-> i.h, x |-> -1, y |-> -1, o |-> i.o]
           new == [w |-> w, h |-> h, x |-> -1, y |-> -1, o |-> i.o]
<1>1. i \in [w : Int, h : Int, x : Int, y : Int, o : {1, 6}]
  BY ImageIsRecord
<1>2. i.w \in Int /\ i.h \in Int
  BY <1>1
<1>3. [i EXCEPT !.x = -1, !.y = -1] = blank
  <2>1. PICK m \in Int : m = -1
    OBVIOUS
  <2>2. [i EXCEPT !.x = m, !.y = m] = [w |-> i.w, h |-> i.h, x |-> m, y |-> m, o |-> i.o]
    BY <1>1, <1>2, NewMark, Zenon
  <2> QED
    BY <2>1, <2>2, Zenon
<1>4. blank \in [w : Int, h : Int, x : Int, y : Int, o : {1, 6}]
  BY <1>1
<1>5. /\ blank.x = -1 /\ blank.y = -1 /\ blank.o = i.o
  OBVIOUS
<1> HIDE DEF blank
<1>6. [blank EXCEPT !.w = w, !.h = h] = new
  <2>1. [blank EXCEPT !.w = w, !.h = h] = [w |-> w, h |-> h, x |-> blank.x, y |-> blank.y, o |-> blank.o]
    BY <1>2, <1>4, NewSize, Zenon
  <2> QED
    BY <2>1, <1>5, Zenon
<1> HIDE DEF new
<1>7. Images!Sized(i, w, h) = IF w < 1 \/ h < 1 THEN Images!Refused
                       ELSE IF w = i.w /\ h = i.h THEN i ELSE new
  BY <1>3, <1>6 DEF Images!Sized, Images!Unmarked
<1> QED
  BY <1>7 DEF new

LEMMA SizedType ==
    ASSUME NEW i \in Images!Image, NEW w \in Int, NEW h \in Int
    PROVE  /\ w \in Images!Side /\ h \in Images!Side => Images!Sized(i, w, h) \in Images!Image
           /\ Images!Checked(Images!Sized(i, w, h)) \in Images!Image \cup {Images!Refused}
<1>1. CASE w < 1 \/ h < 1
  BY <1>1, SizedIs DEF Images!Side, Images!Checked
<1>2. CASE w = i.w /\ h = i.h
  BY <1>2, SizedIs, ImageFields DEF Images!Side, Images!Checked
<1> DEFINE new == [w |-> w, h |-> h, x |-> -1, y |-> -1, o |-> i.o]
<1>3. CASE ~(w < 1 \/ h < 1) /\ ~(w = i.w /\ h = i.h)
  <2>1. w \in Images!Side /\ h \in Images!Side => new \in Images!Image
    BY ImageFields
  <2>2. Images!Sized(i, w, h) = new
    BY <1>3, SizedIs
  <2>3. new.w = w /\ new.h = h
    OBVIOUS
  <2> HIDE DEF new
  <2> QED
    BY <2>1, <2>2, <2>3 DEF Images!Checked, Images!Fits
<1> QED
  BY <1>1, <1>2, <1>3

LEMMA CropType ==
    ASSUME NEW i \in Images!Image, NEW x \in Nat, NEW y \in Nat,
           NEW w \in Images!Side, NEW h \in Images!Side
    PROVE  Images!CropTo(i, x, y, w, h) \in Images!Image
BY ImageFields DEF Images!CropTo, Images!Marked, Images!Side

LEMMA QuarterTurnType ==
    ASSUME NEW i \in Images!Image
    PROVE  Images!QuarterTurn(i) \in Images!Image
BY ImageFields DEF Images!QuarterTurn, Images!Marked, Images!Side

LEMMA UprightType ==
    ASSUME NEW i \in Images!Image
    PROVE  Images!Upright(i) \in Images!Image
<1> DEFINE turned == Images!QuarterTurn(i)
<1>1. turned \in Images!Image
  BY QuarterTurnType
<1> HIDE DEF turned
<1>2. [turned EXCEPT !.o = 1] \in Images!Image
  BY <1>1 DEF Images!Image
<1> QED
  BY <1>2 DEF Images!Upright, turned

LEMMA TurnedType ==
    ASSUME NEW i \in Images!Image, NEW quarters \in 1 .. 3
    PROVE  Images!Turned(i, quarters) \in Images!Image
<1>1. Images!HalfTurn(i) \in Images!Image
  BY QuarterTurnType DEF Images!HalfTurn
<1> QED
  BY <1>1, QuarterTurnType DEF Images!Turned

LEMMA MirroredType ==
    ASSUME NEW i \in Images!Image, NEW axis \in {"horizontal", "vertical"}
    PROVE  Images!Mirrored(i, axis) \in Images!Image
BY ImageFields DEF Images!Mirrored, Images!Marked, Images!Side

LEMMA TrimType ==
    ASSUME NEW i \in Images!Image, NEW e, e.x \in Nat, e.y \in Nat,
           e.w \in Images!Side, e.h \in Images!Side
    PROVE  Images!TrimOf(i, e) \in Images!Image
BY CropType DEF Images!TrimOf

LEMMA FramedType ==
    ASSUME NEW i \in Images!Image, NEW w \in Images!Side, NEW h \in Images!Side,
           NEW dx \in 0 .. w - i.w, NEW dy \in 0 .. h - i.h
    PROVE  Images!Framed(i, w, h, dx, dy) \in Images!Image
<1> DEFINE j == Images!Framed(i, w, h, dx, dy)
<1>1. i.w \in Nat /\ i.h \in Nat /\ w \in Nat /\ h \in Nat /\ i.x \in Int /\ i.y \in Int
  BY ImageFields DEF Images!Side
<1> DEFINE x == IF Images!Marked(i) THEN i.x + dx ELSE i.x
           y == IF Images!Marked(i) THEN i.y + dy ELSE i.y
<1>2. x \in Int /\ y \in Int
  BY <1>1
<1>3. \/ x \in 0 .. w - 1 /\ y \in 0 .. h - 1
      \/ x = -1 /\ y = -1
  BY <1>1, ImageFields DEF Images!Marked
<1>4. j = [i EXCEPT !.w = w, !.h = h, !.x = x, !.y = y]
  BY ImageIsRecord DEF Images!Framed
<1> DEFINE new == [w |-> w, h |-> h, x |-> x, y |-> y, o |-> i.o]
<1>5. i.o \in {1, 6} /\ w \in Int /\ h \in Int
  BY <1>1, ImageFields
<1> HIDE DEF x, y, j
<1>6. j = new
  BY <1>2, <1>4, <1>5, ImageIsRecord
<1>7. new \in Images!Image
  BY <1>3, <1>5, ImageFields
<1> QED
  BY <1>6, <1>7 DEF j

\* Where an image may be put that is no larger than what it is put in.
LEMMA PlaceType ==
    ASSUME NEW inner \in Nat, NEW outer \in Nat, inner <= outer
    PROVE  /\ Images!Halved(outer, inner) \in 0 .. outer - inner
           /\ Images!HalvesApart(outer, inner) \in 0 .. outer - inner
           /\ \A g, axis : Images!Placed(g, axis, outer, inner, 0) \in 0 .. outer - inner
<1>1. outer - inner \in Nat
  OBVIOUS
<1>2. Images!Halved(outer, inner) \in 0 .. outer - inner
  BY <1>1, Half DEF Images!Halved
<1>3. Images!HalvesApart(outer, inner) \in 0 .. outer - inner
  BY DEF Images!HalvesApart
<1>4. ASSUME NEW g, NEW axis
      PROVE  Images!Placed(g, axis, outer, inner, 0) \in 0 .. outer - inner
  BY <1>1, <1>3 DEF Images!Placed
<1> QED
  BY <1>2, <1>3, <1>4

\* Wherever a region lies, its part inside the image is an image, or nothing.
LEMMA PlacedIsInt ==
    ASSUME NEW g, NEW axis, NEW outer \in Nat, NEW inner \in Nat, NEW offset \in Nat
    PROVE  Images!Placed(g, axis, outer, inner, offset) \in Int
<1>1. outer \div 2 \in Int /\ inner \div 2 \in Int
  OBVIOUS
<1> QED
  BY <1>1 DEF Images!Placed, Images!HalvesApart

LEMMA CutType ==
    ASSUME NEW i \in Images!Image, NEW x \in Int, NEW y \in Int,
           NEW w \in Images!Side, NEW h \in Images!Side
    PROVE  Images!Cut(i, x, y, w, h) \in Images!Image \cup {Images!Refused}
<1> DEFINE left_ == Images!Larger(0, x)
           top_ == Images!Larger(0, y)
           right_ == Images!Smaller(x + w, i.w)
           bottom_ == Images!Smaller(y + h, i.h)
<1>1. i.w \in Images!Side /\ i.h \in Images!Side /\ MaxSide \in Nat
  BY ImageFields, ImageAssumption
<1>2. left_ \in Nat /\ top_ \in Nat /\ right_ \in Int /\ bottom_ \in Int
  BY <1>1 DEF Images!Larger, Images!Smaller, Images!Side
<1>3. right_ <= i.w /\ bottom_ <= i.h
  BY <1>1 DEF Images!Smaller, Images!Side
<1>4. Images!Cut(i, x, y, w, h) = IF left_ >= right_ \/ top_ >= bottom_ THEN Images!Refused
                                 ELSE Images!CropTo(i, left_, top_, right_ - left_, bottom_ - top_)
  BY DEF Images!Cut
<1> HIDE DEF left_, top_, right_, bottom_
<1>5. CASE ~(left_ >= right_ \/ top_ >= bottom_)
  <2>1. right_ - left_ \in Images!Side /\ bottom_ - top_ \in Images!Side
    BY <1>1, <1>2, <1>3, <1>5 DEF Images!Side
  <2> QED
    BY <1>2, <1>4, <1>5, <2>1, CropType
<1> QED
  BY <1>4, <1>5

-----------------------------------------------------------------------------
\* Edits.
LEMMA EditIs ==
    ASSUME NEW e \in Images!Edit
    PROVE  /\ e.op \in {"auto_orient", "tone", "resize", "crop", "rotate", "flip", "trim", "pad"}
           /\ e.op \in {"resize", "crop", "trim", "pad"} => e.w \in Images!Side /\ e.h \in Images!Side
           /\ e.op \in {"crop", "trim"} => e.x \in 0 .. 1 /\ e.y \in 0 .. 1
           /\ e.op = "rotate" => e.quarters \in 1 .. 3
           /\ e.op = "flip" => e.axis \in {"horizontal", "vertical"}
           /\ e.op = "pad" => e.gravity \in Images!Gravities
BY DEF Images!Edit

\* One edit, by its name: what an engine makes of it.
LEMMA CheckedType ==
    ASSUME NEW j \in Images!Image \cup {Images!Refused}
    PROVE  Images!Checked(j) \in Images!Image \cup {Images!Refused}
BY DEF Images!Checked

LEMMA FitType ==
    ASSUME NEW i \in Images!Image, NEW w \in Images!Side, NEW h \in Images!Side
    PROVE  /\ Images!Checked(Images!Contain(i, w, h, Images!HalfEven))
                \in Images!Image \cup {Images!Refused}
           /\ Images!Contain(i, w, h, Images!HalfUp) \in Images!Image
<1>1. /\ i.w \in Nat \ {0} /\ i.h \in Nat \ {0} /\ w \in Nat \ {0} /\ h \in Nat \ {0}
      /\ 1 .. w \subseteq Images!Side /\ 1 .. h \subseteq Images!Side
  BY ImageAssumption, ImageFields DEF Images!Side
<1>2. i.h * w \in Nat /\ i.w * h \in Nat /\ w * i.h = i.h * w
  BY <1>1
<1>3. Images!HalfEven(i.h * w, i.w) \in Int /\ Images!HalfEven(i.w * h, i.h) \in Int
  BY <1>1, <1>2, HalfEvenType
<1>4. CASE i.w * h > w * i.h
  <2>1. Images!HalfUp(i.h * w, i.w) \in Images!Side
    <3>1. i.h * w <= i.w * h
      BY <1>2, <1>4
    <3>2. Images!HalfUp(i.h * w, i.w) \in 1 .. h
      BY <1>1, <1>2, <3>1, HalfUpBound
    <3> QED
      BY <1>1, <3>2
  <2>2. Images!Contain(i, w, h, Images!HalfEven) = Images!Sized(i, w, Images!HalfEven(i.h * w, i.w))
    BY <1>4 DEF Images!Contain
  <2>3. Images!Contain(i, w, h, Images!HalfUp) = Images!Sized(i, w, Images!HalfUp(i.h * w, i.w))
    BY <1>4 DEF Images!Contain
  <2>4. Images!HalfUp(i.h * w, i.w) \in Int
    BY <2>1 DEF Images!Side
  <2> QED
    BY <1>1, <1>3, <2>1, <2>2, <2>3, <2>4, SizedType
<1>5. CASE ~(i.w * h > w * i.h)
  <2>1. Images!HalfUp(i.w * h, i.h) \in Images!Side
    <3>1. i.w * h <= i.h * w
      BY <1>2, <1>5
    <3>2. Images!HalfUp(i.w * h, i.h) \in 1 .. w
      BY <1>1, <1>2, <3>1, HalfUpBound
    <3> QED
      BY <1>1, <3>2
  <2>2. Images!Contain(i, w, h, Images!HalfEven) = Images!Sized(i, Images!HalfEven(i.w * h, i.h), h)
    BY <1>5 DEF Images!Contain
  <2>3. Images!Contain(i, w, h, Images!HalfUp) = Images!Sized(i, Images!HalfUp(i.w * h, i.h), h)
    BY <1>5 DEF Images!Contain
  <2>4. Images!HalfUp(i.w * h, i.h) \in Int
    BY <2>1 DEF Images!Side
  <2> QED
    BY <1>1, <1>3, <2>1, <2>2, <2>3, <2>4, SizedType
<1> QED
  BY <1>4, <1>5

LEMMA SideIsInt == \A s \in Images!Side : s \in Int
BY DEF Images!Side

LEMMA PillowType ==
    ASSUME NEW i \in Images!Image \cup {Images!Refused}, NEW e \in Images!Edit
    PROVE  Images!Pillow(i, e) \in Images!Image \cup {Images!Refused}
<1>1. CASE i = Images!Refused
  BY <1>1 DEF Images!Pillow
<1>2. CASE i # Images!Refused
  <2>1. i \in Images!Image /\ Images!Pillow(i, e) = Images!Checked(Images!PillowEdit(i, e))
    BY <1>2 DEF Images!Pillow
  <2>2. CASE e.op = "auto_orient"
    BY <2>1, <2>2, UprightType, CheckedType DEF Images!PillowEdit
  <2>3. CASE e.op = "tone"
    BY <2>1, <2>3, CheckedType DEF Images!PillowEdit
  <2>4. CASE e.op = "resize" /\ e.mode = "fit"
    BY <2>1, <2>4, EditIs, FitType DEF Images!PillowEdit
  <2>5. CASE e.op = "resize" /\ e.mode # "fit"
    BY <2>1, <2>5, EditIs, SideIsInt, SizedType DEF Images!PillowEdit
  <2>6. CASE e.op = "crop"
    <3>1. Images!PillowEdit(i, e) \in {Images!Refused, Images!CropTo(i, e.x, e.y, e.w, e.h)}
      BY <2>6 DEF Images!PillowEdit
    <3> QED
      BY <2>1, <2>6, <3>1, EditIs, CropType, CheckedType
  <2>7. CASE e.op = "rotate"
    BY <2>1, <2>7, EditIs, TurnedType, CheckedType DEF Images!PillowEdit
  <2>8. CASE e.op = "flip"
    BY <2>1, <2>8, EditIs, MirroredType, CheckedType DEF Images!PillowEdit
  <2>9. CASE e.op = "trim"
    <3>1. e.x \in Nat /\ e.y \in Nat
      BY <2>9, EditIs
    <3> QED
      BY <2>1, <2>9, <3>1, EditIs, TrimType, CheckedType DEF Images!PillowEdit
  <2>10. CASE e.op = "pad"
    <3>1. /\ e.w \in Images!Side /\ e.h \in Images!Side
          /\ e.w \in Int /\ e.h \in Int /\ i.w \in Int /\ i.h \in Int
      BY <2>1, <2>10, EditIs, ImageFields, SideIsInt
    <3>2. CASE e.w < i.w \/ e.h < i.h
      BY <2>1, <2>10, <3>2, CheckedType DEF Images!PillowEdit
    <3>3. CASE ~(e.w < i.w \/ e.h < i.h) /\ e.w > i.w /\ e.h > i.h
      BY <2>1, <2>10, <3>1, <3>3, SizedType DEF Images!PillowEdit
    <3>4. CASE ~(e.w < i.w \/ e.h < i.h) /\ ~(e.w > i.w /\ e.h > i.h)
      <4> DEFINE dx == Images!Halved(e.w, i.w)
                 dy == Images!Halved(e.h, i.h)
      <4>1. Images!PillowEdit(i, e) = Images!Framed(i, e.w, e.h, dx, dy)
        BY <2>10, <3>4 DEF Images!PillowEdit
      <4>2. /\ i.w <= e.w /\ i.h <= e.h
            /\ i.w \in Nat /\ i.h \in Nat /\ e.w \in Nat /\ e.h \in Nat
        BY <2>1, <3>1, <3>4, ImageFields DEF Images!Side
      <4>3. dx \in 0 .. e.w - i.w /\ dy \in 0 .. e.h - i.h
        BY <4>2, PlaceType
      <4> HIDE DEF dx, dy
      <4> QED
        BY <2>1, <3>1, <4>1, <4>3, FramedType, CheckedType
    <3> QED
      BY <3>2, <3>3, <3>4
  <2> QED
    BY <2>2, <2>3, <2>4, <2>5, <2>6, <2>7, <2>8, <2>9, <2>10, EditIs
<1> QED
  BY <1>1, <1>2

LEMMA MagickType ==
    ASSUME NEW i \in Images!Image \cup {Images!Refused}, NEW g, NEW e \in Images!Edit
    PROVE  Images!Magick(i, g, e) \in Images!Image \cup {Images!Refused}
<1>1. CASE i = Images!Refused
  BY <1>1 DEF Images!Magick
<1>2. CASE i # Images!Refused
  <2>1. i \in Images!Image /\ Images!Magick(i, g, e) = Images!MagickEdit(i, g, e)
    BY <1>2 DEF Images!Magick
  <2>2. CASE e.op = "auto_orient"
    BY <2>1, <2>2, UprightType DEF Images!MagickEdit
  <2>3. CASE e.op = "tone"
    BY <2>1, <2>3 DEF Images!MagickEdit
  <2>4. CASE e.op = "resize" /\ e.mode = "fit"
    BY <2>1, <2>4, EditIs, FitType DEF Images!MagickEdit
  <2>5. CASE e.op = "resize" /\ e.mode # "fit"
    BY <2>1, <2>5, EditIs, SideIsInt, SizedType DEF Images!MagickEdit
  <2>6. CASE e.op = "crop"
    <3> DEFINE x == Images!Placed(g, "x", i.w, e.w, e.x)
               y == Images!Placed(g, "y", i.h, e.h, e.y)
    <3>1. /\ e.w \in Images!Side /\ e.h \in Images!Side
          /\ e.x \in Nat /\ e.y \in Nat /\ e.w \in Nat /\ e.h \in Nat /\ i.w \in Nat /\ i.h \in Nat
      BY <2>1, <2>6, EditIs, ImageFields DEF Images!Side
    <3>2. x \in Int /\ y \in Int
      BY <3>1, PlacedIsInt
    <3>3. Images!MagickEdit(i, g, e) = Images!Cut(i, x, y, e.w, e.h)
      BY <2>6 DEF Images!MagickEdit
    <3> HIDE DEF x, y
    <3> QED
      BY <2>1, <3>1, <3>2, <3>3, CutType
  <2>7. CASE e.op = "rotate"
    BY <2>1, <2>7, EditIs, TurnedType DEF Images!MagickEdit
  <2>8. CASE e.op = "flip"
    BY <2>1, <2>8, EditIs, MirroredType DEF Images!MagickEdit
  <2>9. CASE e.op = "trim"
    <3>1. e.x \in Nat /\ e.y \in Nat
      BY <2>9, EditIs
    <3> QED
      BY <2>1, <2>9, <3>1, EditIs, TrimType DEF Images!MagickEdit
  <2>10. CASE e.op = "pad"
    <3>1. /\ e.w \in Images!Side /\ e.h \in Images!Side
          /\ e.w \in Int /\ e.h \in Int /\ i.w \in Int /\ i.h \in Int
      BY <2>1, <2>10, EditIs, ImageFields, SideIsInt
    <3>2. CASE e.w < i.w \/ e.h < i.h
      BY <2>1, <2>10, <3>1, <3>2, SizedType DEF Images!MagickEdit
    <3>3. CASE ~(e.w < i.w \/ e.h < i.h)
      <4> DEFINE dx == Images!Placed(e.gravity, "x", e.w, i.w, 0)
                 dy == Images!Placed(e.gravity, "y", e.h, i.h, 0)
      <4>1. Images!MagickEdit(i, g, e) = Images!Framed(i, e.w, e.h, dx, dy)
        BY <2>10, <3>3 DEF Images!MagickEdit
      <4>2. /\ i.w <= e.w /\ i.h <= e.h
            /\ i.w \in Nat /\ i.h \in Nat /\ e.w \in Nat /\ e.h \in Nat
        BY <2>1, <3>1, <3>3, ImageFields DEF Images!Side
      <4>3. dx \in 0 .. e.w - i.w /\ dy \in 0 .. e.h - i.h
        BY <4>2, PlaceType
      <4> HIDE DEF dx, dy
      <4> QED
        BY <2>1, <3>1, <4>1, <4>3, FramedType
    <3> QED
      BY <3>2, <3>3
  <2> QED
    BY <2>2, <2>3, <2>4, <2>5, <2>6, <2>7, <2>8, <2>9, <2>10, EditIs
<1> QED
  BY <1>1, <1>2

-----------------------------------------------------------------------------
\* What is portable.
LEMMA FitAgrees ==
    ASSUME NEW i \in Images!Image, NEW g, NEW e \in Images!Edit, e.op = "resize", e.mode = "fit",
           Images!Portable(i, g, e)
    PROVE  Images!PillowEdit(i, e) = Images!MagickEdit(i, g, e)
<1> DEFINE w == e.w
           h == e.h
<1>1. i.w \in Nat \ {0} /\ i.h \in Nat \ {0} /\ w \in Nat \ {0} /\ h \in Nat \ {0}
  BY EditIs, ImageFields DEF Images!Side
<1>2. i.h * w \in Nat /\ i.w * h \in Nat
  BY <1>1
<1>3. /\ i.w * h > w * i.h => (i.h * w) % i.w = 0 /\ i.h * w >= i.w
      /\ ~(i.w * h > w * i.h) => (i.w * h) % i.h = 0 /\ i.w * h >= i.h
  BY DEF Images!Portable
<1>4. i.w >= w \/ i.h >= h
  BY DEF Images!Portable
<1>5. /\ Images!PillowEdit(i, e) = Images!Contain(i, w, h, Images!HalfEven)
      /\ Images!MagickEdit(i, g, e) = IF i.w <= w /\ i.h <= h THEN i
                                  ELSE Images!Contain(i, w, h, Images!HalfUp)
  BY DEF Images!PillowEdit, Images!MagickEdit
<1> HIDE DEF w, h
<1>6. Images!Contain(i, w, h, Images!HalfEven) = Images!Contain(i, w, h, Images!HalfUp)
  <2>1. CASE i.w * h > w * i.h
    <3>1. Images!HalfEven(i.h * w, i.w) = Images!HalfUp(i.h * w, i.w)
      BY <1>1, <1>2, <1>3, <2>1, HalfEvenExact, HalfUpExact
    <3> QED
      BY <2>1, <3>1 DEF Images!Contain
  <2>2. CASE ~(i.w * h > w * i.h)
    <3>1. Images!HalfEven(i.w * h, i.h) = Images!HalfUp(i.w * h, i.h)
      BY <1>1, <1>2, <1>3, <2>2, HalfEvenExact, HalfUpExact
    <3> QED
      BY <2>2, <3>1 DEF Images!Contain
  <2> QED
    BY <2>1, <2>2
<1>7. i.w <= w /\ i.h <= h => Images!Contain(i, w, h, Images!HalfEven) = i
  <2> SUFFICES ASSUME i.w <= w, i.h <= h
               PROVE  Images!Contain(i, w, h, Images!HalfEven) = i
    OBVIOUS
  <2>1. Images!Sized(i, i.w, i.h) = i
    BY <1>1 DEF Images!Sized
  <2>2. CASE i.w = w /\ i.w * h > w * i.h
    <3>1. (i.h * w) \div i.w = i.h
      BY <1>1, <2>2, Quotient
    <3>2. Images!HalfEven(i.h * w, i.w) = i.h
      BY <1>1, <1>2, <1>3, <2>2, <3>1, HalfEvenExact
    <3> QED
      BY <2>1, <2>2, <3>2 DEF Images!Contain
  <2>3. CASE i.h = h /\ ~(i.w * h > w * i.h)
    <3>1. (i.w * h) \div i.h = i.w
      <4>1. i.w * h = i.h * i.w + 0
        BY <1>1, <2>3
      <4> QED
        BY <1>1, <1>2, <4>1, Quotient
    <3>2. Images!HalfEven(i.w * h, i.h) = i.w
      BY <1>1, <1>2, <1>3, <2>3, <3>1, HalfEvenExact
    <3> QED
      BY <2>1, <2>3, <3>2 DEF Images!Contain
  <2>4. CASE i.w = w /\ i.h # h
    <3>1. i.w * h > w * i.h
      <4>1. i.w * h - w * i.h = i.w * (h - i.h)
        BY <1>1, <2>4
      <4>2. i.w * (h - i.h) > 0
        BY <1>1, <2>4
      <4> QED
        BY <1>1, <4>1, <4>2
    <3> QED
      BY <2>2, <2>4, <3>1
  <2>5. CASE i.h = h /\ i.w # w
    <3>1. ~(i.w * h > w * i.h)
      <4>1. w * i.h - i.w * h = i.h * (w - i.w)
        BY <1>1, <2>5
      <4>2. i.h * (w - i.w) > 0
        BY <1>1, <2>5
      <4> QED
        BY <1>1, <4>1, <4>2
    <3> QED
      BY <2>3, <2>5, <3>1
  <2>6. i.w = w \/ i.h = h
    BY <1>1, <1>4
  <2> QED
    BY <2>2, <2>3, <2>4, <2>5, <2>6
<1> QED
  BY <1>5, <1>6, <1>7

LEMMA CropAgrees ==
    ASSUME NEW i \in Images!Image, NEW g, NEW e \in Images!Edit, e.op = "crop", Images!Portable(i, g, e)
    PROVE  Images!PillowEdit(i, e) = Images!MagickEdit(i, g, e)
<1>1. /\ e.x \in Nat /\ e.y \in Nat /\ e.w \in Nat \ {0} /\ e.h \in Nat \ {0}
      /\ i.w \in Nat /\ i.h \in Nat
  BY EditIs, ImageFields DEF Images!Side
<1>2. e.x + e.w <= i.w /\ e.y + e.h <= i.h
  BY DEF Images!Portable
<1>3. Images!PillowEdit(i, e) = Images!CropTo(i, e.x, e.y, e.w, e.h)
  BY <1>1, <1>2 DEF Images!PillowEdit
<1>4. Images!MagickEdit(i, g, e) = Images!Cut(i, e.x, e.y, e.w, e.h)
  BY DEF Images!Portable, Images!MagickEdit
<1>5. /\ Images!Larger(0, e.x) = e.x /\ Images!Smaller(e.x + e.w, i.w) = e.x + e.w
      /\ Images!Larger(0, e.y) = e.y /\ Images!Smaller(e.y + e.h, i.h) = e.y + e.h
  BY <1>1, <1>2 DEF Images!Larger, Images!Smaller
<1>6. /\ ~(e.x >= e.x + e.w \/ e.y >= e.y + e.h)
      /\ (e.x + e.w) - e.x = e.w /\ (e.y + e.h) - e.y = e.h
  BY <1>1
<1>7. Images!Cut(i, e.x, e.y, e.w, e.h) = Images!CropTo(i, e.x, e.y, e.w, e.h)
  BY <1>5, <1>6, Zenon DEF Images!Cut
<1> QED
  BY <1>3, <1>4, <1>7

LEMMA PadAgrees ==
    ASSUME NEW i \in Images!Image, NEW g, NEW e \in Images!Edit, e.op = "pad", Images!Portable(i, g, e)
    PROVE  Images!PillowEdit(i, e) = Images!MagickEdit(i, g, e)
<1>1. e.w \in Nat /\ e.h \in Nat /\ i.w \in Nat /\ i.h \in Nat
  BY EditIs, ImageFields DEF Images!Side
<1>2. /\ e.w >= i.w /\ e.h >= i.h /\ (e.w = i.w \/ e.h = i.h)
      /\ (e.w - i.w) % 2 = 0 /\ (e.h - i.h) % 2 = 0
  BY DEF Images!Portable
<1>3. ASSUME NEW inner \in Nat, NEW outer \in Nat, outer >= inner, (outer - inner) % 2 = 0
      PROVE  Images!Halved(outer, inner) = Images!HalvesApart(outer, inner)
  <2>1. outer - inner \in Nat
    BY <1>3
  <2>2. Images!HalfEven(outer - inner, 2) = (outer - inner) \div 2
    BY <1>3, <2>1, Half
  <2>3. (outer - inner) \div 2 = outer \div 2 - inner \div 2
    BY <1>3
  <2> QED
    BY <2>2, <2>3 DEF Images!Halved, Images!HalvesApart
<1>4. /\ Images!Halved(e.w, i.w) = Images!HalvesApart(e.w, i.w)
      /\ Images!Halved(e.h, i.h) = Images!HalvesApart(e.h, i.h)
  BY <1>1, <1>2, <1>3
<1>5. /\ Images!Placed(e.gravity, "x", e.w, i.w, 0) = Images!HalvesApart(e.w, i.w)
      /\ Images!Placed(e.gravity, "y", e.h, i.h, 0) = Images!HalvesApart(e.h, i.h)
  BY DEF Images!Portable
<1>6. Images!PillowEdit(i, e) = Images!Framed(i, e.w, e.h, Images!Halved(e.w, i.w), Images!Halved(e.h, i.h))
  BY <1>1, <1>2 DEF Images!PillowEdit
<1>7. Images!MagickEdit(i, g, e) =
        Images!Framed(i, e.w, e.h, Images!HalvesApart(e.w, i.w), Images!HalvesApart(e.h, i.h))
  BY <1>1, <1>2, <1>5 DEF Images!MagickEdit
<1> QED
  BY <1>4, <1>6, <1>7

LEMMA PortableEdit ==
    ASSUME NEW i \in Images!Image, NEW g, NEW e \in Images!Edit, Images!Portable(i, g, e)
    PROVE  /\ Images!Pillow(i, e) = Images!Magick(i, g, e)
           /\ Images!Magick(i, g, e) \in Images!Image
           /\ Images!Fits(Images!Magick(i, g, e).w, Images!Magick(i, g, e).h)
<1>1. Images!PillowEdit(i, e) = Images!MagickEdit(i, g, e)
  <2>1. CASE e.op \in {"auto_orient", "tone", "rotate", "flip", "trim"}
    BY <2>1 DEF Images!PillowEdit, Images!MagickEdit
  <2>2. CASE e.op = "resize" /\ e.mode # "fit"
    BY <2>2 DEF Images!PillowEdit, Images!MagickEdit
  <2> QED
    BY <2>1, <2>2, FitAgrees, CropAgrees, PadAgrees, EditIs
<1>2. Images!Fits(Images!MagickEdit(i, g, e).w, Images!MagickEdit(i, g, e).h)
  BY DEF Images!Portable
<1>3. Images!MagickEdit(i, g, e) # Images!Refused
  BY <1>2 DEF Images!Refused, Images!Fits, Images!Side
<1>4. /\ i # Images!Refused /\ Images!Magick(i, g, e) = Images!MagickEdit(i, g, e)
      /\ Images!Pillow(i, e) = Images!Checked(Images!PillowEdit(i, e))
  BY RefusedIsNoImage DEF Images!Magick, Images!Pillow
<1>5. Images!Checked(Images!MagickEdit(i, g, e)) = Images!MagickEdit(i, g, e)
  BY <1>2, <1>3 DEF Images!Checked
<1> QED
  BY <1>1, <1>2, <1>3, <1>4, <1>5, MagickType

-----------------------------------------------------------------------------
\* Layouts.
LEMMA OverlayAgrees ==
    ASSUME NEW base \in [w : Images!Side, h : Images!Side],
           NEW item \in [w : Images!Side, h : Images!Side],
           NEW corner \in {"northwest", "northeast", "southwest", "southeast"},
           item.w + Margin <= base.w, item.h + Margin <= base.h
    PROVE  Images!PillowPlace(base, item, corner) = Images!MagickPlace(base, item, corner)
<1>1. /\ base.w \in Int /\ base.h \in Int /\ item.w \in Int /\ item.h \in Int
      /\ Margin \in Nat
  BY ImageAssumption DEF Images!Side
<1>2. /\ Images!Larger(0, Margin) = Margin
      /\ Images!Larger(0, base.w - item.w - Margin) = base.w - item.w - Margin
      /\ Images!Larger(0, base.h - item.h - Margin) = base.h - item.h - Margin
  BY <1>1 DEF Images!Larger
<1>3. CASE corner = "northwest"
  BY <1>2, <1>3 DEF Images!PillowPlace, Images!MagickPlace
<1>4. CASE corner = "northeast"
  BY <1>2, <1>4 DEF Images!PillowPlace, Images!MagickPlace
<1>5. CASE corner = "southwest"
  BY <1>2, <1>5 DEF Images!PillowPlace, Images!MagickPlace
<1>6. CASE corner = "southeast"
  BY <1>2, <1>6 DEF Images!PillowPlace, Images!MagickPlace
<1> QED
  BY <1>3, <1>4, <1>5, <1>6

\* The multiples of c up to k: the largest of them, and how many are below it.
Multiples(c, k) == {s \in 0 .. k : s % c = 0}

LEMMA LastMultiple ==
    ASSUME NEW c \in Nat \ {0}, NEW k \in Nat
    PROVE  Images!Max(Multiples(c, k)) = c * (k \div c)
<1> DEFINE q == k \div c
           r == k % c
           last == c * q
<1>1. q \in Int /\ r \in Int /\ k = c * q + r /\ 0 <= r /\ r < c
  BY Division
<1>2. q \in Nat
  OBVIOUS
<1>3. last \in Nat
  BY <1>2
<1>4. last = c * q + 0 /\ 0 \in 0 .. c - 1
  BY <1>2
<1> HIDE DEF q, r
<1>5. last % c = 0
  BY <1>2, <1>3, <1>4, Quotient
<1>6. last \in Multiples(c, k)
  BY <1>1, <1>3, <1>5 DEF Multiples
<1>7. ASSUME NEW s \in Multiples(c, k)
      PROVE  last >= s
  <2>1. s \in Nat /\ s <= k /\ s % c = 0
    BY <1>7 DEF Multiples
  <2>2. s \div c \in Int /\ s = c * (s \div c)
    BY <2>1, Division
  <2> DEFINE p == s \div c
  <2> HIDE DEF p
  <2>3. p \in Int /\ s = c * p
    BY <2>2 DEF p
  <2>4. c * p < c * (q + 1)
    <3>1. c * (q + 1) = c * q + c
      BY <1>2
    <3> QED
      BY <1>1, <1>2, <2>1, <2>3, <3>1
  <2>5. p <= q
    BY <1>2, <2>3, <2>4
  <2> QED
    BY <1>2, <2>3, <2>5
<1>8. \A m \in Multiples(c, k) : (\A s \in Multiples(c, k) : m >= s) => m = last
  BY <1>3, <1>6, <1>7 DEF Multiples
<1> HIDE DEF last
<1>9. Images!Max(Multiples(c, k)) = last
  BY <1>6, <1>7, <1>8 DEF Images!Max
<1> QED
  BY <1>9 DEF last, q

LEMMA CountMultiples ==
    ASSUME NEW c \in Nat \ {0}, NEW q \in Nat
    PROVE  Images!Cardinality({s \in 0 .. (c * q) - 1 : s % c = 0}) = q
<1> DEFINE T == {s \in 0 .. (c * q) - 1 : s % c = 0}
           f == [n \in 1 .. q |-> c * (n - 1)]
<1>1. \A n \in 1 .. q : f[n] \in T
  <2> SUFFICES ASSUME NEW n \in 1 .. q
               PROVE  c * (n - 1) \in T
    OBVIOUS
  <2>1. c * (n - 1) \in Nat /\ c * q \in Nat
    OBVIOUS
  <2>2. c * (n - 1) < c * q
    OBVIOUS
  <2>3. (c * (n - 1)) % c = 0
    <3>1. c * (n - 1) = c * (n - 1) + 0 /\ n - 1 \in Int /\ 0 \in 0 .. c - 1
      BY <2>1
    <3> QED
      BY <2>1, <3>1, Quotient
  <2> QED
    BY <2>1, <2>2, <2>3
<1>2. \A m, n \in 1 .. q : f[m] = f[n] => m = n
  <2> SUFFICES ASSUME NEW m \in 1 .. q, NEW n \in 1 .. q, c * (m - 1) = c * (n - 1)
               PROVE  m = n
    OBVIOUS
  <2>1. (c * (m - 1)) \div c = m - 1 /\ (c * (n - 1)) \div c = n - 1
    <3>1. \A p \in Nat : (c * p) \div c = p
      <4> TAKE p \in Nat
      <4>1. c * p = c * p + 0 /\ c * p \in Int /\ 0 \in 0 .. c - 1
        OBVIOUS
      <4> QED
        BY <4>1, Quotient
    <3> QED
      BY <3>1
  <2> QED
    BY <2>1
<1>3. \A s \in T : \E n \in 1 .. q : f[n] = s
  <2> SUFFICES ASSUME NEW s \in T
               PROVE  \E n \in 1 .. q : c * (n - 1) = s
    OBVIOUS
  <2>1. s \in Nat /\ s < c * q /\ s % c = 0
    OBVIOUS
  <2>2. PICK p \in Int : s = c * p
    BY <2>1, Division
  <2>3. p >= 0 /\ p < q
    <3>1. p >= 0
      BY <2>1, <2>2
    <3>2. p < q
      BY <2>1, <2>2
    <3> QED
      BY <3>1, <3>2
  <2>4. p + 1 \in 1 .. q /\ c * ((p + 1) - 1) = s
    BY <2>2, <2>3
  <2> QED
    BY <2>4
<1> HIDE DEF T
<1>4. f \in Bijection(1 .. q, T)
  <2>1. f \in [1 .. q -> T]
    BY <1>1
  <2> HIDE DEF f
  <2> QED
    BY <1>2, <1>3, <2>1 DEF Bijection, Injection, IsInjective, Surjection
<1>5. ExistsBijection(1 .. q, T)
  BY <1>4 DEF ExistsBijection
<1>6. Images!Cardinality(T) = q
  BY <1>5, SameCount, FS_CountingElements
<1> QED
  BY <1>6 DEF T

LEMMA MontageAgrees ==
    ASSUME NEW columns \in Images!Side, NEW n \in Nat \ {0}, NEW cw \in Nat, NEW ch \in Nat,
           Images!Fits(Images!Canvas(columns, n, cw, ch).w, Images!Canvas(columns, n, cw, ch).h),
           n % Images!Columns(columns, n) = 0
    PROVE  Images!PillowMontage(columns, n, cw, ch) = Images!MagickMontage(columns, n, cw, ch)
<1> DEFINE c == Images!Columns(columns, n)
           size == Images!Canvas(columns, n, cw, ch)
           start == [k \in 0 .. n - 1 |-> Images!Max({s \in 0 .. k : s % c = 0})]
           inset == [k \in 0 .. n - 1 |->
                       IF start[k] = start[n - 1]
                         THEN Images!HalvesApart(size.w, cw * (n - start[n - 1])) ELSE 0]
<1>1. c \in Nat \ {0}
  BY ImageAssumption DEF Images!Columns, Images!Smaller, Images!Side
<1>0. n % c = 0 /\ size.w = c * cw
  BY DEF Images!Canvas
<1> HIDE DEF c, size
<1>2. ASSUME NEW k \in 0 .. n - 1
      PROVE  /\ k - start[k] = k % c
             /\ Images!Cardinality({s \in 0 .. start[k] - 1 : s % c = 0}) = k \div c
  <2> DEFINE q == k \div c
  <2>1. q \in Nat /\ k % c \in Int /\ k = (c * q) + (k % c)
    BY <1>1, Division
  <2>2. start[k] = c * q
    <3>1. start[k] = Images!Max(Multiples(c, k))
      BY DEF Multiples
    <3>2. k \in Nat
      OBVIOUS
    <3> QED
      BY <1>1, <3>1, <3>2, LastMultiple
  <2> HIDE DEF q, start
  <2>3. c * q \in Int
    BY <1>1, <2>1
  <2>4. k - start[k] = k % c
    BY <2>1, <2>2, <2>3
  <2>5. Images!Cardinality({s \in 0 .. start[k] - 1 : s % c = 0}) = q
    BY <1>1, <2>1, <2>2, CountMultiples
  <2> QED
    BY <2>4, <2>5 DEF q
\* A last row as long as the others begins where they do.
<1>8. ASSUME NEW k \in 0 .. n - 1
      PROVE  inset[k] = 0
  <2> DEFINE q == n \div c
  <2>1. q \in Int /\ n = c * q
    BY <1>0, <1>1, Division
  <2> HIDE DEF q
  <2>2. n - 1 = (c * (q - 1)) + (c - 1) /\ c - 1 \in 0 .. c - 1 /\ q - 1 \in Int /\ n - 1 \in Int
    BY <1>1, <2>1
  <2>3. (n - 1) \div c = q - 1 /\ (n - 1) % c = c - 1
    <3> DEFINE m == n - 1
               p == q - 1
               r == c - 1
    <3>1. m \in Int /\ p \in Int /\ r \in 0 .. c - 1 /\ m = (c * p) + r
      BY <2>2
    <3> HIDE DEF m, p, r
    <3>2. m \div c = p /\ m % c = r
      BY <1>1, <3>1, Quotient
    <3> QED
      BY <3>2 DEF m, p, r
  <2>4. n - 1 \in 0 .. n - 1
    OBVIOUS
  <2>5. (n - 1) - start[n - 1] = c - 1
    BY <1>2, <2>3, <2>4
  <2>6. start[n - 1] \in Nat
    <3>1. start[n - 1] = Images!Max(Multiples(c, n - 1))
      BY <2>4 DEF Multiples
    <3>2. Images!Max(Multiples(c, n - 1)) = c * ((n - 1) \div c) /\ (n - 1) \div c = q - 1
      <4>1. n - 1 \in Nat
        OBVIOUS
      <4> QED
        BY <1>1, <2>3, <4>1, LastMultiple
    <3>3. q - 1 \in Nat
      BY <1>1, <2>1
    <3> QED
      BY <1>1, <3>1, <3>2, <3>3
  <2> HIDE DEF start, q
  <2>7. n - start[n - 1] = c
    BY <1>1, <2>5, <2>6
  <2>8. Images!HalvesApart(size.w, cw * (n - start[n - 1])) = 0
    <3>1. size.w = cw * (n - start[n - 1]) /\ size.w \in Nat
      BY <1>0, <1>1, <2>7
    <3> QED
      BY <3>1 DEF Images!HalvesApart
  <2> QED
    BY <2>8
<1>3. ASSUME NEW k \in 0 .. n - 1
      PROVE  <<(k % c) * cw, (k \div c) * ch>>
               = <<inset[k] + cw * (k - start[k]),
                   ch * Images!Cardinality({s \in 0 .. start[k] - 1 : s % c = 0})>>
  <2>1. k % c \in Int /\ k \div c \in Int
    BY <1>1, Division
  <2>2. (k % c) * cw = cw * (k % c) /\ (k \div c) * ch = ch * (k \div c)
    BY <2>1
  <2> HIDE DEF start, inset
  <2>3. inset[k] + cw * (k - start[k]) = cw * (k % c)
    <3>1. inset[k] = 0 /\ k - start[k] = k % c
      BY <1>2, <1>8
    <3>2. cw * (k % c) \in Int
      BY <2>1
    <3> QED
      BY <3>1, <3>2
  <2> QED
    BY <1>2, <2>2, <2>3
<1> HIDE DEF start, inset
<1>4. [k \in 0 .. n - 1 |-> <<(k % c) * cw, (k \div c) * ch>>]
        = [k \in 0 .. n - 1 |->
             <<inset[k] + cw * (k - start[k]),
               ch * Images!Cardinality({s \in 0 .. start[k] - 1 : s % c = 0})>>]
  BY <1>3, Zenon
<1>5. Images!Fits(size.w, size.h)
  BY DEF size
<1>6. Images!PillowMontage(columns, n, cw, ch)
        = [w |-> size.w, h |-> size.h,
           cells |-> [k \in 0 .. n - 1 |-> <<(k % c) * cw, (k \div c) * ch>>]]
  BY <1>5, Zenon DEF Images!PillowMontage, c, size
<1>7. Images!MagickMontage(columns, n, cw, ch)
        = [w |-> size.w, h |-> size.h,
           cells |-> [k \in 0 .. n - 1 |->
             <<inset[k] + cw * (k - start[k]),
               ch * Images!Cardinality({s \in 0 .. start[k] - 1 : s % c = 0})>>]]
  BY Zenon DEF Images!MagickMontage, c, size, start, inset
<1> QED
  BY <1>4, <1>6, <1>7, Zenon

-----------------------------------------------------------------------------
\* While the edits go on and all of them are portable, both engines hold an image that fits.
Alike == step = "editing" /\ exact => mag # Images!Refused /\ Images!Fits(mag.w, mag.h)

ImageInv == Images!TypeOK /\ Images!EnginesAgree /\ Alike

LEMMA InitImages == Images!Init => ImageInv
BY ImageAssumption DEF Images!Init, ImageInv, Images!TypeOK, Images!EnginesAgree, Alike, Images!Stages

LEMMA OpenInv == ImageInv /\ Images!Open => ImageInv'
<1> SUFFICES ASSUME ImageInv, Images!Open
             PROVE  ImageInv'
  OBVIOUS
<1>1. PICK i \in Images!Image : /\ pil' = Images!Checked(i) /\ mag' = i /\ source' = i.o
                         /\ exact' = Images!Fits(i.w, i.h)
  BY DEF Images!Open
<1>2. step' = "editing" /\ UNCHANGED <<gravity, edits>>
  BY DEF Images!Open
<1>3. i # Images!Refused /\ i.o \in {1, 6}
  BY RefusedIsNoImage, ImageFields
<1>4. Images!Checked(i) \in Images!Image \cup {Images!Refused}
  BY CheckedType
<1>5. Images!Fits(i.w, i.h) => Images!Checked(i) = i
  BY <1>3 DEF Images!Checked
<1>6. Images!Fits(i.w, i.h) \in BOOLEAN
  BY DEF Images!Fits
<1>7. Images!TypeOK'
  BY <1>1, <1>2, <1>3, <1>4, <1>6 DEF ImageInv, Images!TypeOK, Images!Stages
<1>8. Images!EnginesAgree' /\ Alike'
  BY <1>1, <1>3, <1>5 DEF Images!EnginesAgree, Alike
<1> QED
  BY <1>7, <1>8 DEF ImageInv

LEMMA EditInv == ImageInv /\ Images!ApplyEdit => ImageInv'
<1> SUFFICES ASSUME ImageInv, Images!ApplyEdit
             PROVE  ImageInv'
  OBVIOUS
<1>1. PICK e \in Images!Edit :
        /\ pil' = Images!Pillow(pil, e) /\ mag' = Images!Magick(mag, gravity, e)
        /\ gravity' = Images!GravityAfter(gravity, e)
        /\ exact' = (exact /\ Images!Portable(mag, gravity, e))
  BY DEF Images!ApplyEdit
<1>2. step = "editing" /\ edits < MaxEdits /\ edits' = edits + 1 /\ UNCHANGED <<step, source>>
  BY DEF Images!ApplyEdit
<1>3. pil \in Images!Image \cup {Images!Refused} /\ mag \in Images!Image \cup {Images!Refused}
  BY <1>2 DEF ImageInv, Images!TypeOK
<1>4. Images!TypeOK'
  <2>1. pil' \in Images!Image \cup {Images!Refused} /\ mag' \in Images!Image \cup {Images!Refused}
    BY <1>1, <1>3, PillowType, MagickType
  <2>2. exact' \in BOOLEAN
    BY <1>1
  <2>3. edits' \in 0 .. MaxEdits
    BY <1>2, ImageAssumption DEF ImageInv, Images!TypeOK
  <2>4. gravity' \in Images!Gravities \cup {"northwest"}
    BY <1>1, EditIs DEF ImageInv, Images!TypeOK, Images!GravityAfter, Images!Gravities
  <2> QED
    BY <1>2, <2>1, <2>2, <2>3, <2>4 DEF ImageInv, Images!TypeOK
<1>5. ASSUME exact'
      PROVE  pil' = mag' /\ mag' # Images!Refused /\ Images!Fits(mag'.w, mag'.h)
  <2>1. exact /\ Images!Portable(mag, gravity, e)
    BY <1>1, <1>5
  <2>2. mag \in Images!Image /\ pil = mag
    BY <1>2, <1>3, <2>1 DEF ImageInv, Images!EnginesAgree, Alike
  <2>3. /\ Images!Pillow(mag, e) = Images!Magick(mag, gravity, e)
        /\ Images!Magick(mag, gravity, e) \in Images!Image
        /\ Images!Fits(Images!Magick(mag, gravity, e).w, Images!Magick(mag, gravity, e).h)
    BY <2>1, <2>2, PortableEdit
  <2> QED
    BY <1>1, <2>2, <2>3, RefusedIsNoImage
<1>6. Images!EnginesAgree' /\ Alike'
  BY <1>5 DEF Images!EnginesAgree, Alike
<1> QED
  BY <1>4, <1>6 DEF ImageInv

LEMMA SaveInv == ImageInv /\ Images!Save => ImageInv'
<1> SUFFICES ASSUME ImageInv, Images!Save
             PROVE  ImageInv'
  OBVIOUS
<1>1. PICK strip \in BOOLEAN :
        /\ pil' = IF pil = Images!Refused THEN Images!Refused
                  ELSE [pil EXCEPT !.o = IF strip THEN 1 ELSE source]
        /\ mag' = [mag EXCEPT !.o = IF strip THEN 1 ELSE @]
        /\ exact' = (exact /\ (strip \/ mag.o = source))
  BY DEF Images!Save
<1>2. step = "editing" /\ mag # Images!Refused /\ step' = "done" /\ UNCHANGED <<gravity, source, edits>>
  BY DEF Images!Save
<1>3. pil \in Images!Image \cup {Images!Refused} /\ mag \in Images!Image /\ source \in {1, 6}
  BY <1>2 DEF ImageInv, Images!TypeOK
<1>4. ASSUME NEW i \in Images!Image, NEW o \in {1, 6}
      PROVE  [i EXCEPT !.o = o] \in Images!Image
  BY <1>4 DEF Images!Image
<1>5. [mag EXCEPT !.o = mag.o] = mag /\ mag.o \in {1, 6}
  BY <1>3 DEF Images!Image
<1>6. Images!TypeOK'
  <2>1. mag' \in Images!Image
    BY <1>1, <1>3, <1>4, <1>5
  <2>2. pil' \in Images!Image \cup {Images!Refused}
    BY <1>1, <1>3, <1>4
  <2> QED
    BY <1>1, <1>2, <2>1, <2>2 DEF ImageInv, Images!TypeOK, Images!Stages
<1>7. ASSUME exact'
      PROVE  pil' = mag'
  <2>1. exact /\ pil = mag /\ (strip \/ mag.o = source)
    BY <1>1, <1>7 DEF ImageInv, Images!EnginesAgree
  <2> QED
    BY <1>1, <1>2, <2>1
<1>8. Images!EnginesAgree' /\ Alike'
  BY <1>2, <1>7 DEF Images!EnginesAgree, Alike
<1> QED
  BY <1>6, <1>8 DEF ImageInv

LEMMA OverlayInv == ImageInv /\ Images!Overlay => ImageInv'
<1> SUFFICES ASSUME ImageInv, Images!Overlay
             PROVE  ImageInv'
  OBVIOUS
<1>1. PICK base \in [w : Images!Side, h : Images!Side], item \in [w : Images!Side, h : Images!Side],
           corner \in {"northwest", "northeast", "southwest", "southeast", "center"} :
        /\ pil' = Images!PillowPlace(base, item, corner)
        /\ mag' = Images!MagickPlace(base, item, corner)
        /\ exact' = (corner # "center" /\ item.w + Margin <= base.w /\ item.h + Margin <= base.h)
  BY DEF Images!Overlay
<1>2. step' = "laid out" /\ UNCHANGED <<gravity, source, edits>>
  BY DEF Images!Overlay
<1>3. Images!EnginesAgree'
  BY <1>1, OverlayAgrees DEF Images!EnginesAgree
<1> QED
  BY <1>1, <1>2, <1>3 DEF ImageInv, Images!TypeOK, Images!Stages, Alike

LEMMA MontageInv == ImageInv /\ Images!Montage => ImageInv'
<1> SUFFICES ASSUME ImageInv, Images!Montage
             PROVE  ImageInv'
  OBVIOUS
<1>1. PICK columns \in Images!Side, n \in 1 .. MaxSide + 1, cw \in 1 .. 2, ch \in 1 .. 2 :
        /\ pil' = Images!PillowMontage(columns, n, cw, ch)
        /\ mag' = Images!MagickMontage(columns, n, cw, ch)
        /\ exact' = (Images!Fits(mag'.w, mag'.h) /\ n % Images!Columns(columns, n) = 0)
  BY DEF Images!Montage
<1>2. step' = "laid out" /\ UNCHANGED <<gravity, source, edits>>
  BY DEF Images!Montage
<1> DEFINE size == Images!Canvas(columns, n, cw, ch)
<1>3. mag'.w = size.w /\ mag'.h = size.h
  BY <1>1 DEF Images!MagickMontage
<1>4. n \in Nat \ {0} /\ cw \in Nat /\ ch \in Nat
  BY ImageAssumption
<1>5. Images!EnginesAgree'
  BY <1>1, <1>3, <1>4, MontageAgrees DEF Images!EnginesAgree
<1>6. exact' \in BOOLEAN
  BY <1>1 DEF Images!Fits
<1> QED
  BY <1>2, <1>5, <1>6 DEF ImageInv, Images!TypeOK, Images!Stages, Alike

LEMMA NextImages == ImageInv /\ [Images!Next]_(Images!vars) => ImageInv'
<1>1. ImageInv /\ UNCHANGED Images!vars => ImageInv'
  BY DEF Images!vars, ImageInv, Images!TypeOK, Images!EnginesAgree, Alike
<1> QED
  BY <1>1, OpenInv, EditInv, SaveInv, OverlayInv, MontageInv DEF Images!Next

LEMMA ImagesHold == Images!Spec => [](Images!TypeOK /\ Images!EnginesAgree)
<1>1. ImageInv => Images!TypeOK /\ Images!EnginesAgree
  BY DEF ImageInv
<1> QED
  BY <1>1, InitImages, NextImages, PTL DEF Images!Spec

-----------------------------------------------------------------------------
(* The child that runs a regular expression.                               *)

\* From the kill on, the child has ended or cannot but end; from the last look on it has
\* ended, and the pipe is closed from the `finally` on.
WorkerInv ==
    /\ Worker!TypeOK
    /\ parent = "idle" => child = "none"
    /\ parent # "idle" => child # "none"
    /\ parent \in {"awaiting", "joining"} => child \in {"killed", "dead", "reaped"}
    /\ parent \in {"checking", "granting", "looking again", "killing", "joining", "returned"} =>
         pipe = "closed"
    /\ parent = "returned" => child = "reaped"

LEMMA InitWorker == Worker!Init => WorkerInv
BY DEF Worker!Init, Worker!TypeOK, WorkerInv

LEMMA NextWorker == WorkerInv /\ [Worker!Next]_(Worker!vars) => WorkerInv'
<1> SUFFICES ASSUME WorkerInv, [Worker!Next]_(Worker!vars)
             PROVE  WorkerInv'
  OBVIOUS
<1> USE DEF WorkerInv, Worker!TypeOK, Worker!Working
<1>1. CASE Worker!Spawn
  BY <1>1 DEF Worker!Spawn
<1>2. CASE Worker!Send \/ Worker!SendRest \/ Worker!SendFails
  BY <1>2 DEF Worker!Send, Worker!SendRest, Worker!SendFails
<1>3. CASE Worker!Ends
  BY <1>3 DEF Worker!Ends
<1>4. CASE Worker!Ready \/ Worker!PollTimesOut \/ Worker!Receive
  BY <1>4 DEF Worker!Ready, Worker!PollTimesOut, Worker!Receive
<1>5. CASE Worker!Kill
  BY <1>5 DEF Worker!Kill
<1>6. CASE Worker!Join
  BY <1>6 DEF Worker!Join, Worker!Gone
<1>7. CASE Worker!Close
  BY <1>7 DEF Worker!Close
<1>8. CASE Worker!IsAlive
  BY <1>8 DEF Worker!IsAlive, Worker!Gone
<1>9. CASE Worker!Grant
  BY <1>9 DEF Worker!Grant, Worker!Gone
<1>10. CASE UNCHANGED Worker!vars
  BY <1>10 DEF Worker!vars
<1> QED
  BY <1>1, <1>2, <1>3, <1>4, <1>5, <1>6, <1>7, <1>8, <1>9, <1>10 DEF Worker!Next

LEMMA WorkerHolds == Worker!Spec => [](Worker!TypeOK /\ Worker!WorkerIsReaped)
<1>1. WorkerInv => Worker!TypeOK /\ Worker!WorkerIsReaped
  BY DEF WorkerInv, Worker!WorkerIsReaped
<1> QED
  BY <1>1, InitWorker, NextWorker, PTL DEF Worker!Spec

-----------------------------------------------------------------------------
(* The browser beside the brokers of the modules that compute: what        *)
(* MCServices checks on one instance, for any connections and limits.      *)

\* What BrokerProofs proves, of the broker of MCServices.
Brokers == INSTANCE BrokerProofs WITH
    up <- running, call <- served, free <- slots, recent <- counted, Slots <- 1

\* Compute and Brokers are the same module under the same substitution.
LEMMA SameInit == Compute!Init => Brokers!Init
  BY DEF Compute!Services, Compute!Classes, Compute!Capacity, Compute!Idle, Compute!Init,
         Brokers!Services, Brokers!Classes, Brokers!Capacity, Brokers!Idle, Brokers!Init

LEMMA SameNext == Compute!Next => Brokers!Next
  BY DEF Compute!Classes, Compute!Capacity, Compute!Kinds, Compute!Requests, Compute!Valid,
         Compute!Idle, Compute!World, Compute!Counters, Compute!At, Compute!Put, Compute!Go,
         Compute!Say, Compute!Fail, Compute!Return, Compute!Connect, Compute!CallerLeaves,
         Compute!Reply, Compute!Limited, Compute!Forget, Compute!Wanted, Compute!ComputeAdmit,
         Compute!RenderAdmit, Compute!PolyhavenAdmit, Compute!ProcessAdmit, Compute!OcrAdmit,
         Compute!TakeSlot, Compute!SlotTimeout, Compute!RenderRate, Compute!ExecuteCompute,
         Compute!ExecuteRender, Compute!ExecuteProcess, Compute!ExecuteImport, Compute!Execute,
         Compute!StageInputs, Compute!Reserve, Compute!Launch, Compute!ProcessWrites, Compute!Stopped,
         Compute!ProcessEnds, Compute!Watched, Compute!ComputeWatch, Compute!RenderWatch,
         Compute!WorkspaceFull, Compute!Deadline, Compute!Stores, Compute!Publish, Compute!ExitReason,
         Compute!ComputeDeliver, Compute!Rendered, Compute!RenderDeliver, Compute!ProcessDeliver,
         Compute!OcrDeliver, Compute!ImportDeliver, Compute!Deliver, Compute!LeaveImport,
         Compute!Clean, Compute!Leave, Compute!Interrupted, Compute!InterruptedLate, Compute!Killed, Compute!Crash,
         Compute!Boot, Compute!CollectReservations, Compute!Thread, Compute!Watch, Compute!Next,
         Brokers!Classes, Brokers!Capacity, Brokers!Kinds, Brokers!Requests, Brokers!Valid,
         Brokers!Idle, Brokers!World, Brokers!Counters, Brokers!At, Brokers!Put, Brokers!Go,
         Brokers!Say, Brokers!Fail, Brokers!Return, Brokers!Connect, Brokers!CallerLeaves,
         Brokers!Reply, Brokers!Limited, Brokers!Forget, Brokers!Wanted, Brokers!ComputeAdmit,
         Brokers!RenderAdmit, Brokers!PolyhavenAdmit, Brokers!ProcessAdmit, Brokers!OcrAdmit,
         Brokers!TakeSlot, Brokers!SlotTimeout, Brokers!RenderRate, Brokers!ExecuteCompute,
         Brokers!ExecuteRender, Brokers!ExecuteProcess, Brokers!ExecuteImport, Brokers!Execute,
         Brokers!StageInputs, Brokers!Reserve, Brokers!Launch, Brokers!ProcessWrites, Brokers!Stopped,
         Brokers!ProcessEnds, Brokers!Watched, Brokers!ComputeWatch, Brokers!RenderWatch,
         Brokers!WorkspaceFull, Brokers!Deadline, Brokers!Stores, Brokers!Publish, Brokers!ExitReason,
         Brokers!ComputeDeliver, Brokers!Rendered, Brokers!RenderDeliver, Brokers!ProcessDeliver,
         Brokers!OcrDeliver, Brokers!ImportDeliver, Brokers!Deliver, Brokers!LeaveImport,
         Brokers!Clean, Brokers!Leave, Brokers!Interrupted, Brokers!InterruptedLate, Brokers!Killed, Brokers!Crash,
         Brokers!Boot, Brokers!CollectReservations, Brokers!Thread, Brokers!Watch, Brokers!Next

LEMMA SameTypes == Compute!TypeOK <=> Brokers!TypeOK
  BY DEF Compute!Services, Compute!Classes, Compute!Kinds, Compute!Call, Compute!TypeOK,
         Brokers!Services, Brokers!Classes, Brokers!Kinds, Brokers!Call, Brokers!TypeOK

LEMMA SameSlots == Compute!SlotsExact <=> Brokers!SlotsExact
  BY DEF Compute!Classes, Compute!Capacity, Compute!Holding, Compute!SlotsExact, Compute!Cardinality,
         Brokers!Classes, Brokers!Capacity, Brokers!Holding, Brokers!SlotsExact, Brokers!Cardinality

\* The composition leaves each part its own behaviours.
LEMMA BrowserOfServices == MCSpec => Spec
<1>1. MCInit => Init
  BY DEF MCInit
<1>2. [MCNext]_<<part, vars, brokerVars, imageVars, workerVars>> => [Next]_vars
  BY DEF MCNext
<1> QED
  BY <1>1, <1>2, PTL DEF MCSpec, Spec

LEMMA BrokerOfServices == MCSpec => Brokers!Spec
<1>1. MCInit => Brokers!Init
  BY SameInit DEF MCInit
<1>2. [MCNext]_<<part, vars, brokerVars, imageVars, workerVars>> => [Brokers!Next]_(Brokers!vars)
  BY SameNext DEF MCNext, brokerVars, Brokers!vars
<1> QED
  BY <1>1, <1>2, PTL DEF MCSpec, Brokers!Spec

LEMMA ImagesOfServices == MCSpec => Images!Spec
<1>1. MCInit => Images!Init
  BY DEF MCInit
<1>2. [MCNext]_<<part, vars, brokerVars, imageVars, workerVars>> => [Images!Next]_(Images!vars)
  BY DEF MCNext, imageVars, Images!vars
<1> QED
  BY <1>1, <1>2, PTL DEF MCSpec, Images!Spec

LEMMA WorkerOfServices == MCSpec => Worker!Spec
<1>1. MCInit => Worker!Init
  BY DEF MCInit
<1>2. [MCNext]_<<part, vars, brokerVars, imageVars, workerVars>> => [Worker!Next]_(Worker!vars)
  BY DEF MCNext, workerVars, Worker!vars
<1> QED
  BY <1>1, <1>2, PTL DEF MCSpec, Worker!Spec

LEMMA BrokerSizes ==
    ASSUME IsFiniteSet(Calls)
    PROVE  Brokers!Sizes
BY BrowserAssumption DEF BrowserAssumption, Brokers!Sizes, IsFiniteSet, Brokers!IsFiniteSet

\* Whichever part runs, its variables keep to their types.
THEOREM TypesAreRight ==
    ASSUME IsFiniteSet(Calls)
    PROVE  MCSpec => []TypesOK
<1>1. TypeOK /\ Brokers!TypeOK /\ Images!TypeOK /\ Worker!TypeOK => TypesOK
  BY SameTypes DEF TypesOK
<1>2. Brokers!Spec => []Brokers!TypeOK
  BY BrokerSizes, Brokers!TypeCorrect
<1> QED
  BY <1>1, <1>2, TypeCorrect, ImagesHold, WorkerHolds, BrowserOfServices, BrokerOfServices,
     ImagesOfServices, WorkerOfServices, PTL

\* The `finally` blocks of handle(), in the composition: each semaphore has exactly what its
\* calls do not hold, and a sandbox runs only in a call with a slot and a directory.
THEOREM SlotsAreExact ==
    ASSUME IsFiniteSet(Calls)
    PROVE  MCSpec => []SlotsExact
<1>1. Brokers!SlotsExact => SlotsExact
  BY SameSlots DEF SlotsExact
<1>2. Brokers!Spec => []Brokers!SlotsExact
  BY BrokerSizes, Brokers!SlotsAreExact
<1> QED
  BY <1>1, <1>2, BrokerOfServices, PTL

\* The `finally` blocks of run() and the purge at the start, in the composition: only the
\* calls being served own a directory, a process or a reservation.  Of the reservations that
\* a crash or an interrupt leaves in the store, `orphans` until the store collects them, it
\* says nothing.
THEOREM NothingIsLeft ==
    ASSUME IsFiniteSet(Calls)
    PROVE  MCSpec => []NothingLeft
<1>1. Brokers!NothingLeft => NothingLeft
  BY DEF NothingLeft, Compute!NothingLeft, Brokers!NothingLeft
<1>2. Brokers!Spec => []Brokers!NothingLeft
  BY BrokerSizes, Brokers!NothingIsLeft
<1> QED
  BY <1>1, <1>2, BrokerOfServices, PTL

\* In python-compute, image-render and image-processing storing the output is the last thing
\* that can fail, in the composition: a call that ends in an exception has stored nothing.
\* document-ocr is not among them.
THEOREM ErrorsStoreNothing ==
    ASSUME IsFiniteSet(Calls)
    PROVE  MCSpec => []ErrorStoresNothing
<1>1. Brokers!ErrorStoresNothing => ErrorStoresNothing
  BY DEF ErrorStoresNothing, Compute!ErrorStoresNothing, Brokers!ErrorStoresNothing
<1>2. Brokers!Spec => []Brokers!ErrorStoresNothing
  BY BrokerSizes, Brokers!ErrorsStoreNothing
<1> QED
  BY <1>1, <1>2, BrokerOfServices, PTL

\* Whatever the sizes, the margin and the number of edits: on the edits that are Portable
\* under the -gravity the edits before have left, on corner overlays and on montages of full
\* rows, edit_pillow and edit_imagemagick, compose_pillow and compose_imagemagick put every
\* pixel at the same place.
THEOREM EnginesAlwaysAgree == MCSpec => []EnginesAgree
<1>1. Images!EnginesAgree => EnginesAgree
  BY DEF EnginesAgree
<1> QED
  BY <1>1, ImagesHold, ImagesOfServices, PTL

\* The `finally` of run_regex_worker, call by call on the Process: wherever the child stands,
\* ends or is killed, it has been waited for and the pipe is closed when the call returns, and
\* the caller joins without a limit only a child that has ended or was killed.
THEOREM WorkersAreReaped == MCSpec => []WorkerIsReaped
<1>1. Worker!WorkerIsReaped => WorkerIsReaped
  BY DEF WorkerIsReaped
<1> QED
  BY <1>1, WorkerHolds, WorkerOfServices, PTL
=============================================================================
