------------------------------ MODULE Browser -------------------------------
(***************************************************************************)
(* browser-retrieval: service.py admits a call (rate limit, the interactive *)
(* or the background slot), and either drives a Chromium of its own over a  *)
(* DevTools pipe (browser.py) or downloads a file into the artifact store   *)
(* (download.py), with retries, redirects, cooldowns and ranged resumption. *)
(*                                                                         *)
(* The web is one resource on one host that is replaced from time to time:  *)
(* it answers with its current version, honours If-Range, and may break off *)
(* a body or refuse.  Pages and extraction scripts are left open.           *)
(***************************************************************************)
EXTENDS Integers, Sequences

CONSTANTS
    Calls,         \* connections being served
    PerMinute,     \* MAX_CALLS_PER_MINUTE
    Attempts,      \* MAX_ATTEMPTS, MAX_BACKGROUND_ATTEMPTS
    MaxRedirects,  \* MAX_REDIRECTS
    Chunks,        \* the length of the resource
    MaxVersion     \* bounds how often the resource is replaced

ASSUME BrowserAssumption ==
    /\ PerMinute \in Nat /\ MaxRedirects \in Nat /\ Chunks \in Nat
    /\ Attempts \in Nat \ {0} /\ MaxVersion \in Nat \ {0}

VARIABLES
    up,            \* the broker accepts connections
    call,          \* call[c]: what the thread of connection c does
    free,          \* the semaphores ACTIVE_CALLS and BACKGROUND_CALLS
    recent,        \* RECENT_CALLS, those of the last 60 seconds
    browsers,      \* connections whose Chromium runs
    strays,        \* Chromium processes whose call has ended
    cooling,       \* HOST_COOLDOWNS has an entry for the host
    version,       \* what the resource is now
    remembered,    \* RECENT_DOWNLOADS' entry for the URL
    held           \* its artifact is still in the store

vars == <<up, call, free, recent, browsers, strays, cooling, version, remembered, held>>

Versions == 1..MaxVersion

\* A content file, each chunk with the version it came from.
Content == UNION {[1..n -> Versions] : n \in 0..Chunks}

NoFile == [got |-> <<>>, declared |-> FALSE]
Files == [got : Content, declared : BOOLEAN]

\* got: the content so far.  validator: the If-Range value, 0 for none.  part: what the
\* current response serves.
Idle == [stage |-> "idle", op |-> "page", background |-> FALSE, gone |-> FALSE,
         got |-> <<>>, validator |-> 0, part |-> 0,
         failures |-> 0, redirects |-> 0, file |-> NoFile]

Call == [stage : {"idle", "asked", "waiting", "launching", "page", "loaded", "closing",
                  "checking", "looking", "asking", "streaming", "pausing", "leaving", "replying"},
         op : {"page", "download"}, background : BOOLEAN, gone : BOOLEAN,
         got : Content, validator : 0..MaxVersion,
         part : 0..MaxVersion, failures : 0..(Attempts - 1),
         redirects : 0..MaxRedirects, file : Files]

Slots == {"interactive", "background"}

TypeOK ==
    /\ up \in BOOLEAN /\ cooling \in BOOLEAN /\ held \in BOOLEAN
    /\ call \in [Calls -> Call]
    /\ free \in [Slots -> 0..1]
    /\ recent \in 0..PerMinute
    /\ browsers \subseteq Calls
    /\ strays \in 0..1
    /\ version \in Versions
    /\ remembered \in Files

Init ==
    /\ up = TRUE
    /\ call = [c \in Calls |-> Idle]
    /\ free = [s \in Slots |-> 1]
    /\ recent = 0
    /\ browsers = {} /\ strays = 0
    /\ cooling = FALSE
    /\ version = 1
    /\ remembered = NoFile /\ held = FALSE

Admission == <<free, recent>>
Chromium  == <<browsers, strays>>
Web       == <<cooling, version>>
Reuse     == <<remembered, held>>

At(c, stage) == up /\ call[c].stage = stage
Put(c, new)  == call' = [call EXCEPT ![c] = new]
Go(c, stage) == Put(c, [call[c] EXCEPT !.stage = stage])
Answer(c, file) == Put(c, [Idle EXCEPT !.stage = "leaving", !.background = call[c].background,
                                       !.op = call[c].op, !.file = file])
Raise(c) == Answer(c, NoFile)

-----------------------------------------------------------------------------
(* The broker: service.py.                                                 *)

\* Only a download may run in the background; a malformed or unauthorized request, or one
\* with invalid arguments, is answered with an error.
Connect(c) ==
    /\ At(c, "idle")
    /\ \/ \E op \in {"page", "download"}, b \in BOOLEAN :
              /\ b => op = "download"
              /\ Put(c, [Idle EXCEPT !.stage = "asked", !.op = op, !.background = b])
       \/ Go(c, "replying")
    /\ UNCHANGED <<up, Admission, Chromium, Web, Reuse>>

\* The adapter's side of the connection is closed: its time is over, or its job was canceled.
\* Nobody looks at that but a download that waits to try again.
CallerLeaves(c) ==
    /\ call[c].stage = "pausing" /\ ~call[c].gone
    /\ Put(c, [call[c] EXCEPT !.gone = TRUE])
    /\ UNCHANGED <<up, Admission, Chromium, Web, Reuse>>

\* _check_rate_limit counts the call before it asks for a slot.
CheckRate(c) ==
    /\ At(c, "asked")
    /\ IF recent >= PerMinute
       THEN Put(c, [Idle EXCEPT !.stage = "replying"]) /\ UNCHANGED recent
       ELSE Go(c, "waiting") /\ recent' = recent + 1
    /\ UNCHANGED <<up, free, Chromium, Web, Reuse>>

\* An accepted call turns 60 seconds old.
Forget ==
    /\ recent > 0
    /\ recent' = recent - 1
    /\ UNCHANGED <<up, call, free, Chromium, Web, Reuse>>

Slot(c) == IF call[c].background THEN "background" ELSE "interactive"

\* The background slot is taken or refused at once, the interactive one within two seconds.
Acquire(c) ==
    /\ At(c, "waiting")
    /\ \/ /\ free[Slot(c)] > 0
          /\ free' = [free EXCEPT ![Slot(c)] = @ - 1]
          /\ Go(c, IF call[c].op = "page" THEN "launching" ELSE "checking")
       \/ /\ free[Slot(c)] = 0
          /\ UNCHANGED free
          /\ Put(c, [Idle EXCEPT !.stage = "replying"])
    /\ UNCHANGED <<up, recent, Chromium, Web, Reuse>>

\* The finally that releases the slot.
Leave(c) ==
    /\ At(c, "leaving")
    /\ free' = [free EXCEPT ![Slot(c)] = @ + 1]
    /\ Put(c, [Idle EXCEPT !.stage = "replying"])
    /\ UNCHANGED <<up, recent, Chromium, Web, Reuse>>

Reply(c) ==
    /\ At(c, "replying")
    /\ Put(c, Idle)
    /\ UNCHANGED <<up, Admission, Chromium, Web, Reuse>>

\* The service stops, and systemd kills what its control group still holds.
Stop ==
    /\ up
    /\ up' = FALSE
    /\ call' = [c \in Calls |-> Idle]
    /\ free' = [s \in Slots |-> 1] /\ recent' = 0
    /\ browsers' = {} /\ strays' = 0
    /\ cooling' = FALSE /\ remembered' = NoFile /\ held' = FALSE
    /\ UNCHANGED version

Start ==
    /\ ~up
    /\ up' = TRUE
    /\ UNCHANGED <<call, Admission, Chromium, Web, Reuse>>

-----------------------------------------------------------------------------
(* A page call: browser.py.                                                *)

\* BrowserCall.__enter__: mkdtemp or Popen raise, or the process runs.
Launch(c) ==
    /\ At(c, "launching") /\ c \notin browsers
    /\ \/ Raise(c) /\ UNCHANGED browsers
       \/ browsers' = browsers \cup {c} /\ UNCHANGED call
    /\ UNCHANGED <<up, Admission, strays, Web, Reuse>>

\* Browser.getVersion, the command that ends __enter__, is answered within ten seconds, or
\* __enter__ raises: then __exit__ never runs, and a process that still lives stays.
Handshake(c) ==
    /\ At(c, "launching") /\ c \in browsers
    /\ \/ Go(c, "page") /\ UNCHANGED Chromium
       \/ /\ Raise(c)
          /\ browsers' = browsers \ {c}
          /\ strays' \in {strays, 1}
    /\ UNCHANGED <<up, Admission, Web, Reuse>>

Navigate_WithoutExit(c) ==
    /\ At(c, "page")
    /\ Go(c, "loaded") \/ Go(c, "leaving")
    /\ UNCHANGED <<up, Admission, Chromium, Web, Reuse>>
\* navigate(): a target is created, attached, configured and sent to the URL, its load event
\* awaited, the selector, the transfer and the element limits checked.  Any command may time
\* out, fail, or find the pipe closed.
Navigate(c) ==
    /\ At(c, "page")
    /\ Go(c, "loaded") \/ Go(c, "closing")
    /\ UNCHANGED <<up, Admission, Chromium, Web, Reuse>>

\* retrieve(), discover_links(), query() and tables() evaluate one expression in the page,
\* with the result or an error.
Extract(c) ==
    /\ At(c, "loaded")
    /\ Go(c, "closing")
    /\ UNCHANGED <<up, Admission, Chromium, Web, Reuse>>

\* BrowserCall.__exit__: the target is closed, the group gets SIGTERM and, after three
\* seconds, SIGKILL; the profile is removed.
Exit(c) ==
    /\ At(c, "closing")
    /\ browsers' = browsers \ {c}
    /\ Go(c, "leaving")
    /\ UNCHANGED <<up, Admission, strays, Web, Reuse>>

-----------------------------------------------------------------------------
(* A download: download.py.                                                *)

\* _reusable: an entry younger than REUSE_SECONDS whose artifact the store still verifies is
\* the answer; one whose artifact is gone is dropped.  The request may ask for a fresh copy.
Check(c) ==
    /\ At(c, "checking")
    /\ \/ /\ remembered # NoFile /\ held
          /\ Answer(c, remembered)
          /\ UNCHANGED Reuse
       \/ /\ Go(c, "looking")
          /\ IF remembered # NoFile /\ ~held
             THEN remembered' = NoFile /\ UNCHANGED held
             ELSE UNCHANGED Reuse
       \/ Raise(c) /\ UNCHANGED Reuse
    /\ UNCHANGED <<up, Admission, Chromium, Web>>

\* The head of the loop: a host that asked for less is waited for when that fits what the
\* call may wait, which a caller that leaves ends.  Then the request is made.
Look(c) ==
    /\ At(c, "looking")
    /\ \/ Go(c, "asking")
       \/ cooling /\ Raise(c)
    /\ UNCHANGED <<up, Admission, Chromium, Web, Reuse>>

\* fits() and the attempts decide whether a failure is retried.
Retry(c) ==
    \/ /\ call[c].failures + 1 < Attempts
       /\ Put(c, [call[c] EXCEPT !.failures = @ + 1, !.stage = "pausing"])
    \/ Raise(c)

\* _wait between two attempts asks once a second whether the caller is still there.
Pause(c) ==
    /\ At(c, "pausing")
    /\ IF call[c].gone THEN Raise(c) ELSE Go(c, "looking")
    /\ UNCHANGED <<up, Admission, Chromium, Web, Reuse>>

\* No answer: the name, the connection or the certificate.
NoAnswer(c) ==
    /\ At(c, "asking")
    /\ Retry(c)
    /\ UNCHANGED <<up, Admission, Chromium, Web, Reuse>>

\* The next hop is validated like the URL; the content so far and its validator are kept.
Redirect(c) ==
    /\ At(c, "asking")
    /\ IF call[c].redirects >= MaxRedirects
       THEN Raise(c)
       ELSE Put(c, [call[c] EXCEPT !.redirects = @ + 1, !.stage = "looking"])
    /\ UNCHANGED <<up, Admission, Chromium, Web, Reuse>>

\* 429 and 503 start a cooldown of the host for every call, 502 and 504 do not.
TryLater(c) ==
    /\ At(c, "asking")
    /\ cooling' \in {cooling, TRUE}
    /\ Retry(c)
    /\ UNCHANGED <<up, Admission, Chromium, version, Reuse>>

\* Any other status, or a range that does not start where the content ends.
Refused(c) ==
    /\ At(c, "asking")
    /\ Raise(c)
    /\ UNCHANGED <<up, Admission, Chromium, Web, Reuse>>

Resumes(c) == call[c].validator # 0 /\ call[c].got # <<>>

\* 200: the whole resource as it is now.  _Transfer.restart drops what there was, and
\* _range_validator takes the validator of this answer, if it allows ranges.
Whole(c) ==
    /\ At(c, "asking")
    /\ \E v \in {0, version} :
           Put(c, [call[c] EXCEPT !.got = <<>>, !.validator = v, !.part = version,
                                  !.stage = "streaming"])
    /\ UNCHANGED <<up, Admission, Chromium, Web, Reuse>>

Partial_NoIfRange(c) ==
    /\ At(c, "asking")
    /\ Resumes(c)
    /\ Put(c, [call[c] EXCEPT !.part = version, !.stage = "streaming"])
    /\ UNCHANGED <<up, Admission, Chromium, Web, Reuse>>
\* 206: the server found the If-Range value to be that of the resource, and sends the rest.
Partial(c) ==
    /\ At(c, "asking")
    /\ Resumes(c) /\ call[c].validator = version
    /\ Put(c, [call[c] EXCEPT !.part = version, !.stage = "streaming"])
    /\ UNCHANGED <<up, Admission, Chromium, Web, Reuse>>

\* _Transfer.stream up to its end: chunks are appended as they arrive.
Streamed(c, n) == call[c].got \o [i \in 1..n |-> call[c].part]
Rest(c) == Chunks - Len(call[c].got)

\* The body ends early.  With a declared length that is an IncompleteRead, a failure like
\* any other; so is a reset or a read that takes too long.
Broken(c) ==
    /\ At(c, "streaming")
    /\ \E n \in 0..(Rest(c) - 1) :
           LET got == Streamed(c, n)
           IN  \/ /\ call[c].failures + 1 < Attempts
                  /\ Put(c, [call[c] EXCEPT !.got = got, !.part = 0, !.failures = @ + 1,
                                            !.stage = "pausing"])
               \/ Raise(c)
    /\ UNCHANGED <<up, Admission, Chromium, Web, Reuse>>

\* The body ends where it was declared to end, or anywhere if no length was declared.
\* The success path: the cooldown of the host is cleared, the content published unless it is
\* empty, of another type or refused by the store, and the result remembered for its URL.
Finish(c) ==
    /\ At(c, "streaming")
    /\ \E n \in 0..Rest(c), declared \in BOOLEAN :
           /\ declared => n = Rest(c)
           /\ LET file == [got |-> Streamed(c, n), declared |-> declared]
              IN  \/ /\ file.got # <<>>
                     /\ Answer(c, file)
                     /\ remembered' = file /\ held' = TRUE
                  \/ Raise(c) /\ UNCHANGED Reuse
    /\ cooling' = FALSE
    /\ UNCHANGED <<up, Admission, Chromium, version>>

\* The limit, timeoutMs, or an error that is not transient.
Overruns(c) ==
    /\ At(c, "streaming")
    /\ Raise(c)
    /\ UNCHANGED <<up, Admission, Chromium, Web, Reuse>>

-----------------------------------------------------------------------------
(* What happens outside.                                                   *)

Replaced ==
    /\ version < MaxVersion
    /\ version' = version + 1
    /\ UNCHANGED <<up, call, Admission, Chromium, cooling, Reuse>>

\* A cooldown ends; a remembered artifact expires or is deleted; an entry grows old.
CoolsDown == cooling /\ cooling' = FALSE /\ UNCHANGED <<up, call, Admission, Chromium, version, Reuse>>
Deleted   == held /\ held' = FALSE /\ UNCHANGED <<up, call, Admission, Chromium, Web, remembered>>
Aged      == /\ remembered # NoFile
             /\ remembered' = NoFile /\ held' = FALSE
             /\ UNCHANGED <<up, call, Admission, Chromium, Web>>

Served(c) ==
    \/ Connect(c) \/ CallerLeaves(c) \/ CheckRate(c) \/ Acquire(c) \/ Leave(c) \/ Reply(c)
    \/ Launch(c) \/ Handshake(c) \/ Navigate(c) \/ Extract(c) \/ Exit(c)
    \/ Check(c) \/ Look(c) \/ Pause(c) \/ NoAnswer(c) \/ Redirect(c) \/ TryLater(c) \/ Refused(c)
    \/ Whole(c) \/ Partial(c) \/ Broken(c) \/ Finish(c) \/ Overruns(c)

Next ==
    \/ \E c \in Calls : Served(c)
    \/ Forget \/ Stop \/ Start \/ Replaced \/ CoolsDown \/ Deleted \/ Aged

Spec == Init /\ [][Next]_vars

-----------------------------------------------------------------------------
(* Properties.                                                             *)

\* A file that is answered, fetched now or reused, is one version of the resource from its
\* first chunk to its last, however often the transfer broke off and was resumed and the
\* resource was replaced.  (A server that declares no length can end it anywhere.)
ArtifactIsOneVersion ==
    \A c \in Calls : call[c].file # NoFile =>
        /\ \A i, j \in DOMAIN call[c].file.got : call[c].file.got[i] = call[c].file.got[j]
        /\ call[c].file.declared => Len(call[c].file.got) = Chunks

\* A Chromium that came up lives within its call and the interactive slot: when the slot is
\* free none runs, and two calls never have one each.
BrowserEndsWithCall ==
    /\ \A c \in browsers : call[c].stage \in {"launching", "page", "loaded", "closing"}
    /\ free["interactive"] = 1 => browsers = {}
    /\ \A c, d \in browsers : c = d
=============================================================================
