----------------------------- MODULE Page_proofs -----------------------------
(***************************************************************************)
(* The four scripts of the page, for any number of recordings,             *)
(* conversions, sides, deployments, tabs, calls and tokens.  The fields of *)
(* the voice recorder are shared by all uses; those of a use that has not  *)
(* gone astray are its own as long as an event of it is to come.  A        *)
(* conversion holds its object URL only while an event or its timeout is   *)
(* to come that gives it back.  The cache of the active service worker is  *)
(* the first one, and full.  A refresh token has one place, and whatever   *)
(* refreshes overlap, a token that stays stored is one that the server     *)
(* accepts.  The types come last: those of the tokens count what each job  *)
(* and call may still have issued.                                         *)
(***************************************************************************)
EXTENDS Page, Sequences, FiniteSetTheorems, TLAPS, WellFoundedInduction

-----------------------------------------------------------------------------
(* The voice recorder: types.                                              *)

\* The browser objects and fields of the recorder.
Pages ==
  [recorder  : [Voice!Recording -> {"none", "recording", "stopping", "inactive"}],
   mics      : SUBSET Voice!Recording, intervals : SUBSET Voice!Recording,
   contexts  : SUBSET Voice!Recording, urls : SUBSET Voice!Recording,
   f         : Voice!Fields]

\* A page whose fields have their types, with a URL where there is a blob.
Tame(p) == p \in Pages /\ (p.f.blob = {} <=> p.f.blobUrl = Voice!None)

\* An object of recording k that still runs and is not the one in its field.
Unnamed(p, k) ==
  \/ k \in p.mics /\ p.f.stream # k
  \/ k \in p.intervals /\ p.f.durationTimer # k
  \/ k \in p.contexts /\ p.f.context # k
  \/ k \in p.urls /\ p.f.blobUrl # k

\* A helper only lets go: it clears fields with what they name, drops audio, and
\* makes running recorders stop.
Winds(p, q) ==
  /\ q.f.dotNetRef = p.f.dotNetRef
  /\ q.f.stream \in {p.f.stream, Voice!None}
  /\ q.f.durationTimer \in {p.f.durationTimer, Voice!None}
  /\ q.f.context \in {p.f.context, Voice!None}
  /\ q.f.blobUrl \in {p.f.blobUrl, Voice!None}
  /\ q.f.chunks \subseteq p.f.chunks /\ q.f.blob \subseteq p.f.blob
  /\ \A k \in Voice!Recording :
       /\ Unnamed(q, k) => Unnamed(p, k)
       /\ \/ q.recorder[k] = p.recorder[k]
          \/ p.recorder[k] = "recording" /\ q.recorder[k] = "stopping"

\* The fields of a page.
LEMMA PageFields ==
  ASSUME NEW p \in Pages
  PROVE  /\ p = [recorder |-> p.recorder, mics |-> p.mics, intervals |-> p.intervals,
                 contexts |-> p.contexts, urls |-> p.urls, f |-> p.f]
         /\ p.f \in Voice!Fields
         /\ Voice!None \notin Voice!Recording
BY PageAssumption DEF Pages, Voice!None, Voice!Recording

\* Winding down twice is winding down.
LEMMA WindsTwice ==
  ASSUME NEW p, NEW q, NEW r, Winds(p, q), Winds(q, r)
  PROVE  Winds(p, r)
<1>1. /\ r.f.dotNetRef = p.f.dotNetRef
      /\ r.f.stream \in {p.f.stream, Voice!None}
      /\ r.f.durationTimer \in {p.f.durationTimer, Voice!None}
      /\ r.f.context \in {p.f.context, Voice!None}
      /\ r.f.blobUrl \in {p.f.blobUrl, Voice!None}
      /\ r.f.chunks \subseteq p.f.chunks /\ r.f.blob \subseteq p.f.blob
  BY DEF Winds
<1>2. \A k \in Voice!Recording :
        /\ Unnamed(r, k) => Unnamed(p, k)
        /\ \/ r.recorder[k] = p.recorder[k]
           \/ p.recorder[k] = "recording" /\ r.recorder[k] = "stopping"
  BY DEF Winds
<1>3. QED
  BY <1>1, <1>2 DEF Winds

\* clearTimer.
LEMMA ClearTimerWinds ==
  ASSUME NEW p, Tame(p)
  PROVE  LET q == Voice!ClearTimer(p)
         IN  /\ Tame(q) /\ Winds(p, q) /\ q.f.durationTimer = Voice!None
             /\ q.f.stream = p.f.stream /\ q.f.context = p.f.context
             /\ q.recorder = p.recorder /\ q.f.mediaRecorder = p.f.mediaRecorder
<1> DEFINE q == Voice!ClearTimer(p)
<1>1. p \in Pages /\ p.f \in Voice!Fields /\ Voice!None \notin Voice!Recording
  BY PageFields DEF Tame
<1>2. /\ q \in Pages /\ q.f = [p.f EXCEPT !.durationTimer = Voice!None]
      /\ q.recorder = p.recorder /\ q.mics = p.mics /\ q.contexts = p.contexts
      /\ q.urls = p.urls /\ q.intervals = p.intervals \ {p.f.durationTimer}
  BY <1>1 DEF Pages, Voice!Fields, Voice!ClearTimer
<1> HIDE DEF q
<1>3. /\ q.f.dotNetRef = p.f.dotNetRef /\ q.f.stream = p.f.stream
      /\ q.f.mediaRecorder = p.f.mediaRecorder /\ q.f.chunks = p.f.chunks
      /\ q.f.durationTimer = Voice!None /\ q.f.context = p.f.context
      /\ q.f.blob = p.f.blob /\ q.f.blobUrl = p.f.blobUrl
  BY <1>1, <1>2 DEF Voice!Fields
<1>4. Tame(q) /\ Winds(p, q)
  BY <1>1, <1>2, <1>3 DEF Tame, Winds, Unnamed
<1>5. QED
  BY <1>2, <1>3, <1>4 DEF q

\* stopAmplitudeCapture.
LEMMA CaptureWinds ==
  ASSUME NEW p, Tame(p)
  PROVE  LET q == Voice!StopAmplitudeCapture(p)
         IN  /\ Tame(q) /\ Winds(p, q) /\ q.f.context = Voice!None
             /\ q.f.stream = p.f.stream /\ q.f.durationTimer = p.f.durationTimer
             /\ q.recorder = p.recorder /\ q.f.mediaRecorder = p.f.mediaRecorder
<1> DEFINE q == Voice!StopAmplitudeCapture(p)
<1>1. p \in Pages /\ p.f \in Voice!Fields /\ Voice!None \notin Voice!Recording
  BY PageFields DEF Tame
<1>2. /\ q \in Pages /\ q.f = [p.f EXCEPT !.context = Voice!None]
      /\ q.recorder = p.recorder /\ q.mics = p.mics /\ q.intervals = p.intervals
      /\ q.urls = p.urls /\ q.contexts = p.contexts \ {p.f.context}
  BY <1>1 DEF Pages, Voice!Fields, Voice!StopAmplitudeCapture
<1> HIDE DEF q
<1>3. /\ q.f.dotNetRef = p.f.dotNetRef /\ q.f.stream = p.f.stream
      /\ q.f.mediaRecorder = p.f.mediaRecorder /\ q.f.chunks = p.f.chunks
      /\ q.f.durationTimer = p.f.durationTimer /\ q.f.context = Voice!None
      /\ q.f.blob = p.f.blob /\ q.f.blobUrl = p.f.blobUrl
  BY <1>1, <1>2 DEF Voice!Fields
<1>4. Tame(q) /\ Winds(p, q)
  BY <1>1, <1>2, <1>3 DEF Tame, Winds, Unnamed
<1>5. QED
  BY <1>2, <1>3, <1>4 DEF q

\* revokePreview.
LEMMA RevokeWinds ==
  ASSUME NEW p, Tame(p)
  PROVE  LET q == Voice!RevokePreview(p)
         IN  /\ Tame(q) /\ Winds(p, q) /\ q.f.blobUrl = Voice!None /\ q.f.blob = {}
             /\ q.f.stream = p.f.stream /\ q.f.durationTimer = p.f.durationTimer
             /\ q.f.context = p.f.context
             /\ q.recorder = p.recorder /\ q.f.mediaRecorder = p.f.mediaRecorder
<1> DEFINE q == Voice!RevokePreview(p)
<1>1. p \in Pages /\ p.f \in Voice!Fields /\ Voice!None \notin Voice!Recording
  BY PageFields DEF Tame
<1>2. /\ q \in Pages /\ q.f = [p.f EXCEPT !.blobUrl = Voice!None, !.blob = {}]
      /\ q.recorder = p.recorder /\ q.mics = p.mics /\ q.intervals = p.intervals
      /\ q.contexts = p.contexts /\ q.urls = p.urls \ {p.f.blobUrl}
  BY <1>1 DEF Pages, Voice!Fields, Voice!RevokePreview
<1> HIDE DEF q
<1>3. /\ q.f.dotNetRef = p.f.dotNetRef /\ q.f.stream = p.f.stream
      /\ q.f.mediaRecorder = p.f.mediaRecorder /\ q.f.chunks = p.f.chunks
      /\ q.f.durationTimer = p.f.durationTimer /\ q.f.context = p.f.context
      /\ q.f.blob = {} /\ q.f.blobUrl = Voice!None
  BY <1>1, <1>2 DEF Voice!Fields
<1>4. Tame(q) /\ Winds(p, q)
  BY <1>1, <1>2, <1>3 DEF Tame, Winds, Unnamed
<1>5. QED
  BY <1>2, <1>3, <1>4 DEF q

\* The stop of the tracks, which ends the recorder of the stream.
LEMMA TracksWinds ==
  ASSUME NEW p, Tame(p)
  PROVE  LET q == Voice!StopTracks(p)
         IN  /\ Tame(q) /\ Winds(p, q) /\ q.f.stream = Voice!None
             /\ q.f.context = p.f.context /\ q.f.durationTimer = p.f.durationTimer
<1> DEFINE q == Voice!StopTracks(p)
<1>1. p \in Pages /\ p.f \in Voice!Fields /\ Voice!None \notin Voice!Recording
  BY PageFields DEF Tame
<1>2. /\ q \in Pages /\ q.f = [p.f EXCEPT !.stream = Voice!None]
      /\ q.intervals = p.intervals /\ q.contexts = p.contexts
      /\ q.urls = p.urls /\ q.mics = p.mics \ {p.f.stream}
      /\ q.recorder = [n \in Voice!Recording |->
           IF n = p.f.stream /\ p.recorder[n] = "recording" THEN "stopping" ELSE p.recorder[n]]
  BY <1>1 DEF Pages, Voice!Fields, Voice!StopTracks
<1> HIDE DEF q
<1>3. /\ q.f.dotNetRef = p.f.dotNetRef /\ q.f.stream = Voice!None
      /\ q.f.chunks = p.f.chunks
      /\ q.f.durationTimer = p.f.durationTimer /\ q.f.context = p.f.context
      /\ q.f.blob = p.f.blob /\ q.f.blobUrl = p.f.blobUrl
  BY <1>1, <1>2 DEF Voice!Fields
<1>4. Tame(q) /\ Winds(p, q)
  BY <1>1, <1>2, <1>3 DEF Tame, Winds, Unnamed
<1>5. QED
  BY <1>3, <1>4 DEF q

\* The stop of a running recorder.
LEMMA StopRecorderWinds ==
  ASSUME NEW p, Tame(p), Voice!IsRecording(p)
  PROVE  LET q == Voice!StopRecorder(p)
         IN  /\ Tame(q) /\ Winds(p, q)
             /\ q.recorder[p.f.mediaRecorder] = "stopping"
             /\ p.f.mediaRecorder \in Voice!Recording
<1> DEFINE q == Voice!StopRecorder(p)
<1>1. p \in Pages /\ p.f \in Voice!Fields /\ p.f.mediaRecorder \in Voice!Recording
  BY PageFields DEF Tame, Voice!IsRecording, Voice!Fields
<1>2. /\ q \in Pages /\ q.f = p.f /\ q.mics = p.mics /\ q.intervals = p.intervals
      /\ q.urls = p.urls /\ q.contexts = p.contexts
      /\ q.recorder = [p.recorder EXCEPT ![p.f.mediaRecorder] = "stopping"]
  BY <1>1 DEF Pages, Voice!StopRecorder
<1> HIDE DEF q
<1>3. q.recorder[p.f.mediaRecorder] = "stopping"
  BY <1>1, <1>2 DEF Pages
<1>4. Tame(q) /\ Winds(p, q)
  BY <1>1, <1>2 DEF Tame, Winds, Unnamed, Pages, Voice!IsRecording
<1>5. QED
  BY <1>1, <1>3, <1>4 DEF q

\* The object drops its chunks, or its MediaRecorder with them.
LEMMA DroppedWinds ==
  ASSUME NEW p, Tame(p)
  PROVE  /\ LET q == [p EXCEPT !.f.chunks = {}]
            IN  /\ Tame(q) /\ Winds(p, q) /\ q.recorder = p.recorder
                /\ q.f.durationTimer = p.f.durationTimer
                /\ q.f.mediaRecorder = p.f.mediaRecorder
         /\ LET q == [p EXCEPT !.f.mediaRecorder = Voice!None, !.f.chunks = {}]
            IN  /\ Tame(q) /\ Winds(p, q) /\ q.f.stream = p.f.stream
                /\ q.f.context = p.f.context /\ q.f.durationTimer = p.f.durationTimer
<1>1. p \in Pages /\ p.f \in Voice!Fields
  BY PageFields DEF Tame
<1> DEFINE q == [p EXCEPT !.f.chunks = {}]
           r == [p EXCEPT !.f.mediaRecorder = Voice!None, !.f.chunks = {}]
<1>2. /\ q \in Pages /\ q.f = [p.f EXCEPT !.chunks = {}]
      /\ q.recorder = p.recorder /\ q.mics = p.mics /\ q.intervals = p.intervals
      /\ q.contexts = p.contexts /\ q.urls = p.urls
  BY <1>1 DEF Pages, Voice!Fields
<1>3. /\ r \in Pages /\ r.f = [p.f EXCEPT !.mediaRecorder = Voice!None, !.chunks = {}]
      /\ r.recorder = p.recorder /\ r.mics = p.mics /\ r.intervals = p.intervals
      /\ r.contexts = p.contexts /\ r.urls = p.urls
  BY <1>1 DEF Pages, Voice!Fields
<1> HIDE DEF q, r
<1>4. /\ q.f.dotNetRef = p.f.dotNetRef /\ q.f.stream = p.f.stream
      /\ q.f.mediaRecorder = p.f.mediaRecorder /\ q.f.chunks = {}
      /\ q.f.durationTimer = p.f.durationTimer /\ q.f.context = p.f.context
      /\ q.f.blob = p.f.blob /\ q.f.blobUrl = p.f.blobUrl
  BY <1>1, <1>2 DEF Voice!Fields
<1>5. /\ r.f.dotNetRef = p.f.dotNetRef /\ r.f.stream = p.f.stream /\ r.f.chunks = {}
      /\ r.f.durationTimer = p.f.durationTimer /\ r.f.context = p.f.context
      /\ r.f.blob = p.f.blob /\ r.f.blobUrl = p.f.blobUrl
  BY <1>1, <1>3 DEF Voice!Fields
<1>6. Tame(q) /\ Winds(p, q)
  BY <1>1, <1>2, <1>4 DEF Tame, Winds, Unnamed
<1>7. Tame(r) /\ Winds(p, r)
  BY <1>1, <1>3, <1>5 DEF Tame, Winds, Unnamed
<1>8. QED
  BY <1>2, <1>4, <1>5, <1>6, <1>7 DEF q, r

\* cleanup: nothing is left but what the timer field names.
LEMMA CleanupWinds ==
  ASSUME NEW p, Tame(p)
  PROVE  LET q == Voice!Cleanup(p)
         IN  /\ Tame(q) /\ Winds(p, q) /\ q.f.stream = Voice!None
             /\ q.f.context = Voice!None /\ q.f.durationTimer = p.f.durationTimer
<1> DEFINE a == Voice!RevokePreview(p)
           b == Voice!StopAmplitudeCapture(a)
           c == Voice!StopTracks(b)
           d == [c EXCEPT !.f.mediaRecorder = Voice!None, !.f.chunks = {}]
<1>1. Tame(a) /\ Winds(p, a) /\ a.f.durationTimer = p.f.durationTimer
  BY RevokeWinds
<1>2. Tame(b) /\ Winds(a, b) /\ b.f.context = Voice!None /\ b.f.durationTimer = a.f.durationTimer
  <2> HIDE DEF a
  <2>1. QED
    BY <1>1, CaptureWinds
<1>3. /\ Tame(c) /\ Winds(b, c) /\ c.f.stream = Voice!None
      /\ c.f.context = b.f.context /\ c.f.durationTimer = b.f.durationTimer
  <2> HIDE DEF b
  <2>1. QED
    BY <1>2, TracksWinds
<1>4. /\ Tame(d) /\ Winds(c, d) /\ d.f.stream = c.f.stream
      /\ d.f.context = c.f.context /\ d.f.durationTimer = c.f.durationTimer
  <2> HIDE DEF c
  <2>1. QED
    BY <1>3, DroppedWinds
<1>5. Voice!Cleanup(p) = d
  BY DEF Voice!Cleanup
<1> HIDE DEF a, b, c, d
<1>6. Winds(p, d)
  BY <1>1, <1>2, <1>3, <1>4, WindsTwice
<1>7. QED
  BY <1>1, <1>2, <1>3, <1>4, <1>5, <1>6

\* stop.
LEMMA StopWinds ==
  ASSUME NEW p, Tame(p)
  PROVE  Tame(Voice!Stop(p)) /\ Winds(p, Voice!Stop(p))
<1> DEFINE q == Voice!ClearTimer(p)
<1>1. Tame(q) /\ Winds(p, q)
  BY ClearTimerWinds
<1>2. Voice!Stop(p) = IF Voice!IsRecording(q) THEN Voice!StopRecorder(q) ELSE q
  BY DEF Voice!Stop
<1> HIDE DEF q
<1>3. Voice!IsRecording(q) => Tame(Voice!StopRecorder(q)) /\ Winds(q, Voice!StopRecorder(q))
  BY <1>1, StopRecorderWinds
<1>4. QED
  BY <1>1, <1>2, <1>3, WindsTwice

\* cancel stops the recorder that runs, and releases all that is named otherwise.
LEMMA CancelWinds ==
  ASSUME NEW p, Tame(p)
  PROVE  LET q == Voice!Cancel(p)
         IN  /\ Tame(q) /\ Winds(p, q)
             /\ \/ \E m \in Voice!Recording :
                     p.recorder[m] = "recording" /\ q.recorder[m] = "stopping"
                \/ /\ q.f.stream = Voice!None /\ q.f.context = Voice!None
                   /\ q.f.durationTimer = Voice!None
<1> DEFINE a == Voice!ClearTimer(p)
           b == Voice!StopAmplitudeCapture(a)
           q == [b EXCEPT !.f.chunks = {}]
<1>1. Tame(a) /\ Winds(p, a) /\ a.f.durationTimer = Voice!None /\ a.recorder = p.recorder
  BY ClearTimerWinds
<1>2. /\ Tame(b) /\ Winds(a, b) /\ b.recorder = a.recorder
      /\ b.f.durationTimer = a.f.durationTimer
  <2> HIDE DEF a
  <2>1. QED
    BY <1>1, CaptureWinds
<1>3. /\ Tame(q) /\ Winds(b, q) /\ q.recorder = b.recorder
      /\ q.f.durationTimer = b.f.durationTimer
  <2> HIDE DEF b
  <2>1. QED
    BY <1>2, DroppedWinds
<1>4. Voice!Cancel(p) = IF Voice!IsRecording(q) THEN Voice!StopRecorder(q) ELSE Voice!Cleanup(q)
  BY DEF Voice!Cancel
<1> HIDE DEF a, b, q
<1>5. Winds(p, q) /\ q.recorder = p.recorder
  BY <1>1, <1>2, <1>3, WindsTwice
<1>6. CASE Voice!IsRecording(q)
  <2> DEFINE r == Voice!StopRecorder(q)
  <2>1. /\ Tame(r) /\ Winds(q, r) /\ r.recorder[q.f.mediaRecorder] = "stopping"
        /\ q.f.mediaRecorder \in Voice!Recording
    BY <1>3, <1>6, StopRecorderWinds
  <2> HIDE DEF r
  <2>2. Winds(p, r)
    BY <1>5, <2>1, WindsTwice
  <2>3. Voice!Cancel(p) = r
    BY <1>4, <1>6 DEF r
  <2>4. p.recorder[q.f.mediaRecorder] = "recording"
    BY <1>5, <1>6 DEF Voice!IsRecording
  <2>5. QED
    BY <2>1, <2>2, <2>3, <2>4
<1>7. CASE ~Voice!IsRecording(q)
  <2> DEFINE r == Voice!Cleanup(q)
  <2>1. /\ Tame(r) /\ Winds(q, r) /\ r.f.stream = Voice!None
        /\ r.f.context = Voice!None /\ r.f.durationTimer = q.f.durationTimer
    BY <1>3, CleanupWinds
  <2> HIDE DEF r
  <2>2. Winds(p, r)
    BY <1>5, <2>1, WindsTwice
  <2>3. Voice!Cancel(p) = r
    BY <1>4, <1>7 DEF r
  <2>4. QED
    BY <1>1, <1>2, <1>3, <2>1, <2>2, <2>3
<1>8. QED
  BY <1>6, <1>7

\* onstop up to the question whether there is audio: its recorder is inactive and
\* the fields name nothing that runs.
LEMMA StoppedWinds ==
  ASSUME NEW p, Tame(p), NEW n \in Voice!Recording
  PROVE  LET a == [p EXCEPT !.recorder[n] = "inactive"]
             q == Voice!Stopped(n, p)
         IN  /\ Tame(q) /\ Winds(a, q)
             /\ a.f = p.f /\ a.recorder = [p.recorder EXCEPT ![n] = "inactive"]
             /\ a.mics = p.mics /\ a.intervals = p.intervals
             /\ a.contexts = p.contexts /\ a.urls = p.urls
             /\ q.f.stream = Voice!None /\ q.f.context = Voice!None
             /\ q.f.durationTimer = Voice!None
<1> DEFINE a == [p EXCEPT !.recorder[n] = "inactive"]
           b == Voice!ClearTimer(a)
           c == Voice!StopAmplitudeCapture(b)
           d == Voice!StopTracks(c)
<1>1. /\ Tame(a) /\ a.f = p.f /\ a.recorder = [p.recorder EXCEPT ![n] = "inactive"]
      /\ a.mics = p.mics /\ a.intervals = p.intervals
      /\ a.contexts = p.contexts /\ a.urls = p.urls
  BY DEF Tame, Pages
<1>2. Tame(b) /\ Winds(a, b) /\ b.f.durationTimer = Voice!None
  <2> HIDE DEF a
  <2>1. QED
    BY <1>1, ClearTimerWinds
<1>3. /\ Tame(c) /\ Winds(b, c) /\ c.f.context = Voice!None
      /\ c.f.durationTimer = b.f.durationTimer
  <2> HIDE DEF b
  <2>1. QED
    BY <1>2, CaptureWinds
<1>4. /\ Tame(d) /\ Winds(c, d) /\ d.f.stream = Voice!None
      /\ d.f.context = c.f.context /\ d.f.durationTimer = c.f.durationTimer
  <2> HIDE DEF c
  <2>1. QED
    BY <1>3, TracksWinds
<1>5. Voice!Stopped(n, p) = d
  BY DEF Voice!Stopped
<1> HIDE DEF b, c, d
<1>6. Winds(a, d)
  <2> HIDE DEF a
  <2>1. QED
    BY <1>2, <1>3, <1>4, WindsTwice
<1>7. QED
  BY <1>1, <1>2, <1>3, <1>4, <1>5, <1>6

\* All is prepared for recording n, and its MediaRecorder in the given state.
ReadiedFields(n, f, audio) ==
  [f EXCEPT !.stream = n, !.mediaRecorder = n, !.durationTimer = n,
            !.context = IF audio = {} THEN f.context ELSE n]

Readied(n, p, audio, state) == [Voice!Prepared(n, p, audio) EXCEPT !.recorder[n] = state]

\* The page once the stream of recording n is there: what has changed belongs to
\* recording n.
LEMMA AcquiredEffect ==
  ASSUME NEW p, Tame(p), NEW n \in Voice!Recording
  PROVE  LET q == Voice!Acquired(n, p)
         IN  /\ Tame(q) /\ q.recorder = p.recorder
             /\ q.mics = p.mics \cup {n} /\ q.intervals = p.intervals
             /\ q.contexts = p.contexts /\ q.urls = p.urls
             /\ q.f = [p.f EXCEPT !.stream = n]
<1> DEFINE a == Voice!Acquired(n, p)
<1>1. /\ p \in Pages /\ p.f \in Voice!Fields
      /\ p.f.blob = {} <=> p.f.blobUrl = Voice!None
  BY PageFields DEF Tame
<1>2. /\ a \in Pages /\ a.recorder = p.recorder /\ a.mics = p.mics \cup {n}
      /\ a.intervals = p.intervals /\ a.contexts = p.contexts /\ a.urls = p.urls
      /\ a.f = [p.f EXCEPT !.stream = n]
  BY <1>1 DEF Pages, Voice!Fields, Voice!Acquired
<1> HIDE DEF a
<1>3. Tame(a)
  BY <1>1, <1>2 DEF Tame, Voice!Fields
<1>4. QED
  BY <1>2, <1>3 DEF a

\* The page once all is prepared.
MadeReady(n, p, audio, state, q) ==
  /\ Tame(q) /\ q.recorder = [p.recorder EXCEPT ![n] = state]
  /\ q.mics = p.mics \cup {n} /\ q.intervals = p.intervals \cup {n}
  /\ q.contexts = p.contexts \cup audio /\ q.urls = p.urls
  /\ q.f = ReadiedFields(n, p.f, audio)

LEMMA ReadiedEffect ==
  ASSUME NEW p, Tame(p), NEW n \in Voice!Recording, NEW audio \in {{}, {n}},
         NEW state \in {"inactive", "recording"}
  PROVE  /\ MadeReady(n, p, audio, state, Readied(n, p, audio, state))
         /\ Voice!Prepared(n, p, audio) = Readied(n, p, audio, "inactive")
<1> DEFINE a == Voice!Acquired(n, p)
           b == Voice!Prepared(n, p, audio)
           q == Readied(n, p, audio, state)
           r == Readied(n, p, audio, "inactive")
<1>1. /\ p \in Pages /\ p.f \in Voice!Fields
      /\ p.f.blob = {} <=> p.f.blobUrl = Voice!None
  BY PageFields DEF Tame
<1>2. /\ a \in Pages /\ a.recorder = p.recorder /\ a.mics = p.mics \cup {n}
      /\ a.intervals = p.intervals /\ a.contexts = p.contexts /\ a.urls = p.urls
      /\ a.f = [p.f EXCEPT !.stream = n]
  BY <1>1, AcquiredEffect DEF Tame
<1>0. /\ q = [b EXCEPT !.recorder[n] = state]
      /\ r = [b EXCEPT !.recorder[n] = "inactive"]
  BY DEF Readied
<1>3. b = [a EXCEPT !.recorder[n] = "inactive", !.f.mediaRecorder = n,
                    !.contexts = @ \cup audio, !.f.context = IF audio = {} THEN @ ELSE n,
                    !.intervals = @ \cup {n}, !.f.durationTimer = n]
  BY DEF Voice!Prepared
<1> HIDE DEF a, b, q, r
<1> DEFINE g == ReadiedFields(n, p.f, audio)
<1>4. g \in Voice!Fields /\ g.blob = p.f.blob /\ g.blobUrl = p.f.blobUrl
  BY <1>1 DEF Voice!Fields, ReadiedFields
<1>5. /\ b.recorder = [p.recorder EXCEPT ![n] = "inactive"] /\ b.mics = a.mics
      /\ b.intervals = a.intervals \cup {n} /\ b.contexts = a.contexts \cup audio
      /\ b.urls = a.urls
  BY <1>2, <1>3 DEF Pages
<1>6. b.f = g
  <2>1. b.f = [a.f EXCEPT !.mediaRecorder = n, !.context = IF audio = {} THEN @ ELSE n,
                          !.durationTimer = n]
    BY <1>2, <1>3 DEF Pages
  <2>2. QED
    BY <1>1, <1>2, <2>1 DEF Voice!Fields, ReadiedFields
<1>7. DOMAIN b = DOMAIN a /\ b = [k \in DOMAIN a |-> b[k]]
  BY <1>3
<1>8. b = [recorder |-> b.recorder, mics |-> b.mics, intervals |-> b.intervals,
           contexts |-> b.contexts, urls |-> b.urls, f |-> b.f]
  BY <1>2, <1>7 DEF Pages
<1> HIDE DEF g
<1>9. b \in Pages
  BY <1>1, <1>2, <1>4, <1>5, <1>6, <1>8 DEF Pages
<1>10. /\ q \in Pages /\ q.recorder = [p.recorder EXCEPT ![n] = state] /\ q.mics = b.mics
       /\ q.intervals = b.intervals /\ q.contexts = b.contexts /\ q.urls = b.urls /\ q.f = b.f
  BY <1>0, <1>1, <1>5, <1>9 DEF Pages
<1>11. b = r
  BY <1>0, <1>1, <1>5, <1>9 DEF Pages
<1>12. Tame(q)
  BY <1>1, <1>4, <1>6, <1>10 DEF Tame
<1>13. QED
  BY <1>2, <1>5, <1>6, <1>10, <1>11, <1>12 DEF a, b, g, q, r, MadeReady

\* onstop makes the blob of the chunks.
WithBlob(n, p) == [p EXCEPT !.f.blob = p.f.chunks, !.f.blobUrl = n, !.urls = @ \cup {n}]

LEMMA BlobEffect ==
  ASSUME NEW p, Tame(p), NEW n \in Voice!Recording, p.f.chunks # {}
  PROVE  LET q == WithBlob(n, p)
         IN  /\ Tame(q) /\ q.recorder = p.recorder /\ q.mics = p.mics
             /\ q.intervals = p.intervals /\ q.contexts = p.contexts
             /\ q.urls = p.urls \cup {n}
             /\ q.f = [p.f EXCEPT !.blob = p.f.chunks, !.blobUrl = n]
<1> DEFINE q == WithBlob(n, p)
<1>1. p \in Pages /\ p.f \in Voice!Fields /\ n # Voice!None
  BY PageFields DEF Tame
<1>2. /\ q \in Pages /\ q.f = [p.f EXCEPT !.blob = p.f.chunks, !.blobUrl = n]
      /\ q.recorder = p.recorder /\ q.mics = p.mics /\ q.intervals = p.intervals
      /\ q.contexts = p.contexts /\ q.urls = p.urls \cup {n}
  BY <1>1 DEF Pages, Voice!Fields, WithBlob
<1> HIDE DEF q
<1>3. Tame(q)
  BY <1>1, <1>2 DEF Tame, Voice!Fields
<1>4. QED
  BY <1>2, <1>3 DEF q

\* The chunks may be any.
LEMMA ChunksEffect ==
  ASSUME NEW p, Tame(p), NEW kept \in SUBSET Voice!Recording
  PROVE  LET q == [p EXCEPT !.f.chunks = kept]
         IN  /\ Tame(q) /\ q.recorder = p.recorder /\ q.mics = p.mics
             /\ q.intervals = p.intervals /\ q.contexts = p.contexts /\ q.urls = p.urls
             /\ q.f = [p.f EXCEPT !.chunks = kept]
BY PageFields DEF Tame, Pages, Voice!Fields

\* start() up to its await.
LEMMA StartedEffect ==
  ASSUME NEW p, Tame(p), NEW n \in Voice!Recording
  PROVE  LET a == Voice!RevokePreview(p)
             q == Voice!Started(n, p)
         IN  /\ Tame(q) /\ q.recorder = a.recorder /\ q.mics = a.mics
             /\ q.intervals = a.intervals /\ q.contexts = a.contexts /\ q.urls = a.urls
             /\ q.f = [a.f EXCEPT !.dotNetRef = n, !.chunks = {}]
<1> DEFINE a == Voice!RevokePreview(p)
           q == [a EXCEPT !.f.dotNetRef = n, !.f.chunks = {}]
<1>1. Tame(a)
  BY RevokeWinds
<1> HIDE DEF a
<1>2. a \in Pages /\ a.f \in Voice!Fields
  BY <1>1, PageFields DEF Tame
<1>3. /\ q \in Pages /\ q.f = [a.f EXCEPT !.dotNetRef = n, !.chunks = {}]
      /\ q.recorder = a.recorder /\ q.mics = a.mics /\ q.intervals = a.intervals
      /\ q.contexts = a.contexts /\ q.urls = a.urls
  BY <1>2 DEF Pages, Voice!Fields
<1>4. q = Voice!Started(n, p)
  BY DEF Voice!Started, a
<1> HIDE DEF q
<1>5. Tame(q)
  BY <1>1, <1>2, <1>3 DEF Tame, Voice!Fields
<1>6. QED
  BY <1>3, <1>4, <1>5 DEF a

\* A page that becomes p is p.
LEMMA BecomesPage ==
  ASSUME NEW p \in Pages, Voice!Becomes(p)
  PROVE  Voice!Page' = p /\ voice' = p.f /\ recorder' = p.recorder
BY PageFields DEF Voice!Becomes, Voice!Page

\* The page record is made of the variables.
LEMMA PageIs ==
  /\ Voice!Page.recorder = recorder /\ Voice!Page.mics = mics
  /\ Voice!Page.intervals = intervals /\ Voice!Page.contexts = contexts
  /\ Voice!Page.urls = urls /\ Voice!Page.f = voice
BY DEF Voice!Page

\* The types of the recorder.
VoiceTyped ==
  /\ Tame(Voice!Page)
  /\ comp \in [Voice!Recording ->
                 {"unused", "recording", "preview", "sending", "leaving", "gone"}]
  /\ asking \subseteq Voice!Recording /\ analyses \subseteq Voice!Recording
  /\ sent \in [Voice!Recording -> SUBSET Voice!Recording]
  /\ astray \subseteq Voice!Recording

\* The last data and onstop, as one of two pages.
LEMMA StopEventEffect ==
  ASSUME Tame(Voice!Page), NEW n \in Voice!Recording, Voice!StopEvent(n)
  PROVE  \E kept \in SUBSET Voice!Recording :
           LET s == Voice!Stopped(n, Voice!Page)
               p == [s EXCEPT !.f.chunks = kept]
           IN  /\ kept \subseteq s.f.chunks \cup {n}
               /\ \/ /\ Voice!Becomes(Voice!Cleanup(p)) /\ Tame(Voice!Cleanup(p))
                     /\ kept = {} /\ analyses' = analyses
                  \/ /\ Voice!Becomes(WithBlob(n, p)) /\ Tame(WithBlob(n, p))
                     /\ kept # {} /\ analyses' = analyses \cup {n}
<1> DEFINE s == Voice!Stopped(n, Voice!Page)
<1>1. PICK last \in SUBSET {n} :
        LET p == [s EXCEPT !.f.chunks = @ \cup last]
        IN  IF p.f.chunks = {}
            THEN Voice!Becomes(Voice!Cleanup(p)) /\ UNCHANGED analyses
            ELSE /\ Voice!Becomes([p EXCEPT !.f.blob = p.f.chunks, !.f.blobUrl = n,
                                            !.urls = @ \cup {n}])
                 /\ analyses' = analyses \cup {n}
  BY DEF Voice!StopEvent
<1>2. Tame(s)
  BY StoppedWinds
<1> HIDE DEF s
<1> DEFINE kept == s.f.chunks \cup last
           p    == [s EXCEPT !.f.chunks = kept]
<1>3. s \in Pages /\ s.f \in Voice!Fields
  BY <1>2, PageFields DEF Tame
<1>4. kept \in SUBSET Voice!Recording /\ kept \subseteq s.f.chunks \cup {n}
  BY <1>3 DEF Voice!Fields
<1>5. p = [s EXCEPT !.f.chunks = @ \cup last]
  BY <1>3 DEF Pages, Voice!Fields
<1> HIDE DEF kept
<1>6. Tame(p) /\ p.f.chunks = kept
  BY <1>2, <1>3, <1>4, ChunksEffect DEF Voice!Fields
<1>7. /\ p.f.chunks = {} => Voice!Becomes(Voice!Cleanup(p)) /\ analyses' = analyses
      /\ p.f.chunks # {} => Voice!Becomes(WithBlob(n, p)) /\ analyses' = analyses \cup {n}
  BY <1>1, <1>5 DEF WithBlob
<1>8. Tame(Voice!Cleanup(p)) /\ (p.f.chunks # {} => Tame(WithBlob(n, p)))
  <2> HIDE DEF p
  <2>1. QED
    BY <1>6, CleanupWinds, BlobEffect
<1>9. QED
  BY <1>4, <1>6, <1>7, <1>8 DEF s

\* Both outcomes of the await of start().
LEMMA AwaitedEffect ==
  ASSUME Tame(Voice!Page), NEW n \in Voice!Recording,
         Voice!Granted(n) \/ Voice!Unrecordable(n)
  PROVE  \E q : /\ Voice!Becomes(q) /\ Tame(q)
                /\ \/ q = Voice!Acquired(n, Voice!Page) /\ Voice!Unrecordable(n)
                   \/ \E audio \in {{}, {n}}, state \in {"inactive", "recording"} :
                        /\ q = Readied(n, Voice!Page, audio, state)
                        /\ state = "inactive" => Voice!Unrecordable(n)
                        /\ state = "recording" => Voice!Granted(n)
<1> DEFINE now == Voice!Page
<1> HIDE DEF now
<1>1. Tame(now)
  BY DEF now
<1>2. CASE Voice!Granted(n)
  <2>1. PICK audio \in {{}, {n}} :
          Voice!Becomes(Readied(n, now, audio, "recording"))
    BY <1>2 DEF Voice!Granted, Readied, now
  <2>2. Tame(Readied(n, now, audio, "recording"))
    BY <1>1, ReadiedEffect DEF MadeReady
  <2>3. QED
    BY <1>2, <2>1, <2>2 DEF now
<1>3. CASE Voice!Unrecordable(n)
  <2>1. PICK q \in {Voice!Acquired(n, now)} \cup
                   {Voice!Prepared(n, now, audio) : audio \in {{}, {n}}} : Voice!Becomes(q)
    BY <1>3 DEF Voice!Unrecordable, now
  <2>2. CASE q = Voice!Acquired(n, now)
    <3>1. Tame(q)
      BY <1>1, <2>2, AcquiredEffect
    <3>2. QED
      BY <1>3, <2>1, <2>2, <3>1 DEF now
  <2>3. CASE q # Voice!Acquired(n, now)
    <3>1. PICK audio \in {{}, {n}} : q = Voice!Prepared(n, now, audio)
      BY <2>1, <2>3
    <3>2. Voice!Prepared(n, now, audio) = Readied(n, now, audio, "inactive")
      BY <1>1, ReadiedEffect
    <3>3. Tame(Readied(n, now, audio, "inactive"))
      BY <1>1, ReadiedEffect DEF MadeReady
    <3>4. QED
      BY <1>3, <2>1, <3>1, <3>2, <3>3 DEF now
  <2>4. QED
    BY <2>2, <2>3
<1>4. QED
  BY <1>2, <1>3

\* No event, and no call of the page, disturbs the types.
LEMMA NextVoiceTyped ==
  ASSUME VoiceTyped, Voice!Next
  PROVE  VoiceTyped'
<1> DEFINE p == Voice!Page
           R == Voice!Recording
<1>1. Tame(p) /\ p.f = voice /\ p.recorder = recorder
  BY DEF VoiceTyped, Voice!Page
<1>2. ASSUME NEW q, Tame(q), Voice!Becomes(q) PROVE Tame(p)'
  <2>1. q \in Pages /\ (q.f.blob = {} <=> q.f.blobUrl = Voice!None)
    BY <1>2 DEF Tame
  <2>2. Voice!Page' = q
    BY <1>2, <2>1, BecomesPage
  <2>3. QED
    BY <1>2, <2>2 DEF Tame, Pages, Voice!Fields, Voice!Recording, Voice!None
<1>3. UNCHANGED <<recorder, mics, intervals, contexts, urls, voice>> => Tame(p)'
  BY <1>1 DEF Voice!Page, Tame, Pages, Voice!Fields, Voice!Recording, Voice!None
<1>4. ASSUME NEW n \in R, Voice!Start(n) PROVE VoiceTyped'
  <2>1. Voice!Becomes(Voice!Started(n, p))
    BY <1>4 DEF Voice!Start
  <2>2. Tame(p)'
    <3>1. Tame(Voice!Started(n, p))
      BY <1>1, StartedEffect
    <3>2. QED
      BY <1>2, <2>1, <3>1
  <2>3. astray' \subseteq R
    BY <1>4 DEF VoiceTyped, Voice!Start
  <2>4. QED
    BY <1>4, <2>2, <2>3 DEF VoiceTyped, Voice!Start
<1>5. ASSUME NEW n \in R, Voice!Granted(n) \/ Voice!Unrecordable(n) PROVE VoiceTyped'
  <2>1. PICK q : Voice!Becomes(q) /\ Tame(q)
    BY <1>1, <1>5, AwaitedEffect
  <2>2. Tame(p)'
    BY <1>2, <2>1
  <2>3. comp' \in [R -> {"unused", "recording", "preview", "sending", "leaving", "gone"}]
    BY <1>5 DEF VoiceTyped, Voice!Granted, Voice!Unrecordable, Voice!Rejected
  <2>4. QED
    BY <1>5, <2>2, <2>3 DEF VoiceTyped, Voice!Granted, Voice!Unrecordable
<1>6. ASSUME NEW n \in R, Voice!Denied(n) PROVE VoiceTyped'
  BY <1>3, <1>6 DEF VoiceTyped, Voice!Denied, Voice!Rejected
<1>7. ASSUME NEW n \in R,
             \/ Voice!StopRecording(n) \/ Voice!CancelRecording(n) \/ Voice!Delete(n)
             \/ Voice!Sent(n) \/ Voice!Dispose(n) \/ Voice!Elapsed(n)
      PROVE VoiceTyped'
  <2>1. PICK q : q \in {Voice!Stop(p), Voice!Cancel(p), Voice!RevokePreview(p)} /\ Voice!Becomes(q)
    BY <1>7 DEF Voice!StopRecording, Voice!CancelRecording, Voice!Delete, Voice!Sent,
                Voice!Dispose, Voice!Elapsed
  <2>2. Tame(p)'
    BY <1>1, <1>2, <2>1, StopWinds, CancelWinds, RevokeWinds
  <2>3. comp' = comp \/ \E s \in {"leaving", "gone"} : comp' = [comp EXCEPT ![n] = s]
    BY <1>7 DEF Voice!StopRecording, Voice!CancelRecording, Voice!Delete, Voice!Sent,
                Voice!Dispose, Voice!Elapsed
  <2>4. UNCHANGED <<asking, analyses, sent, astray>>
    BY <1>7 DEF Voice!StopRecording, Voice!CancelRecording, Voice!Delete, Voice!Sent,
                Voice!Dispose, Voice!Elapsed
  <2>5. QED
    BY <2>2, <2>3, <2>4 DEF VoiceTyped
<1>8. ASSUME NEW n \in R, Voice!Send(n) PROVE VoiceTyped'
  <2>1. voice.blob \in SUBSET R
    BY <1>1 DEF Tame, Pages, Voice!Fields
  <2>2. QED
    BY <1>3, <1>8, <2>1 DEF VoiceTyped, Voice!Send
<1>9. ASSUME NEW n \in R, Voice!Chunk(n) PROVE VoiceTyped'
  <2>1. voice \in Voice!Fields /\ (voice.blob = {} <=> voice.blobUrl = Voice!None)
    BY <1>1 DEF Tame, Pages
  <2>2. voice' \in Voice!Fields /\ (voice'.blob = {} <=> voice'.blobUrl = Voice!None)
    BY <1>9, <2>1 DEF Voice!Chunk, Voice!Fields
  <2>3. Tame(p)'
    BY <1>1, <1>9, <2>2 DEF Tame, Pages, Voice!Page, Voice!Chunk, Voice!Fields, Voice!Recording,
                            Voice!None
  <2>4. QED
    BY <1>9, <2>3 DEF VoiceTyped, Voice!Chunk
<1>10. ASSUME NEW n \in R, Voice!StopEvent(n) PROVE VoiceTyped'
  <2>1. \E q : Voice!Becomes(q) /\ Tame(q) /\ analyses' \in {analyses, analyses \cup {n}}
    BY <1>1, <1>10, StopEventEffect
  <2>2. Tame(p)'
    BY <1>2, <2>1
  <2>3. QED
    BY <1>10, <2>1, <2>2 DEF VoiceTyped, Voice!StopEvent
<1>11. ASSUME NEW n \in R, Voice!Analysed(n) PROVE VoiceTyped'
  BY <1>3, <1>11 DEF VoiceTyped, Voice!Analysed
<1>12. QED
  BY <1>4, <1>5, <1>6, <1>7, <1>8, <1>9, <1>10, <1>11 DEF Voice!Next

\* The voice recorder keeps its types.
LEMMA VoiceTypedInit == Voice!Init => VoiceTyped
BY DEF Voice!Init, VoiceTyped, Tame, Pages, Voice!Page, Voice!Fields

LEMMA VoiceTypedKept ==
  ASSUME VoiceTyped, UNCHANGED voiceVars
  PROVE  VoiceTyped'
BY DEF VoiceTyped, voiceVars, Tame, Pages, Voice!Page, Voice!Fields, Voice!Recording, Voice!None

LEMMA VoiceTypes == PageSpec => []Voice!TypeOK
<1>1. PageInit => VoiceTyped
  BY VoiceTypedInit DEF PageInit
<1>2. VoiceTyped /\ [PageNext]_pageVars => VoiceTyped'
  BY VoiceTypedKept, NextVoiceTyped DEF PageNext, pageVars
<1>3. VoiceTyped => Voice!TypeOK
  BY DEF VoiceTyped, Tame, Pages, Voice!Page, Voice!TypeOK
<1>4. QED
  BY <1>1, <1>2, <1>3, PTL DEF PageSpec
-----------------------------------------------------------------------------
(* The voice recorder: what a recording that has not gone astray may hold.  *)

\* Its recorder runs, or is about to tell that it has stopped.
Sounding(k) == recorder[k] \in {"recording", "stopping"}

\* A field still names the stream, the timer or the context of recording k.
Held(k) == voice.stream = k \/ voice.durationTimer = k \/ voice.context = k

\* What a recording that has not gone astray has running is named by the fields,
\* only the latest holds anything, and then its recorder or its component is to
\* release it.
Orderly ==
  \A k \in Voice!Recording \ astray :
    /\ ~Unnamed(Voice!Page, k)
    /\ Held(k) => k = voice.dotNetRef /\ (Sounding(k) \/ comp[k] # "gone")
    /\ voice.blobUrl = k => k = voice.dotNetRef /\ recorder[k] = "inactive"

\* No other recording is pending beside one that has not gone astray; then the audio
\* is that of the latest.
Alone ==
  /\ \A k \in Voice!Recording :
       k # voice.dotNetRef /\ (k \notin astray \/ voice.dotNetRef \notin astray)
         => ~Voice!Pending(k)
  /\ voice.dotNetRef \notin astray =>
       voice.chunks \cup voice.blob \subseteq {voice.dotNetRef}

\* The uses before the latest are gone, those after it have not begun.
InTurn ==
  \A k \in Voice!Recording :
    /\ k < voice.dotNetRef => comp[k] = "gone"
    /\ k > voice.dotNetRef => /\ comp[k] = "unused" /\ recorder[k] = "none"
                              /\ k \notin asking
    /\ k = voice.dotNetRef => comp[k] # "unused"
    /\ k \in asking => recorder[k] = "none"

\* The inductive invariant of the voice recorder.
VoiceInv == VoiceTyped /\ Orderly /\ Alone /\ InTurn /\ Voice!SendsOwnAudio

\* The latest use is a recording or none.
LEMMA LatestIs ==
  ASSUME VoiceTyped
  PROVE  /\ voice \in Voice!Fields /\ Voice!Page \in Pages
         /\ voice.dotNetRef \in Voice!Recording \cup {Voice!None}
         /\ Voice!None \notin Voice!Recording /\ Voice!Recording \subseteq Nat
         /\ recorder \in [Voice!Recording -> {"none", "recording", "stopping", "inactive"}]
<1>1. Voice!Page \in Pages /\ voice \in Voice!Fields /\ Voice!None \notin Voice!Recording
  BY PageFields, PageIs DEF VoiceTyped, Tame
<1>2. QED
  BY <1>1, PageIs, PageAssumption DEF Pages, Voice!Fields, Voice!Recording

\* Which of two recordings is later.
LEMMA InOrder ==
  ASSUME VoiceTyped, NEW n \in Voice!Recording
  PROVE  /\ n < voice.dotNetRef \/ n = voice.dotNetRef \/ n > voice.dotNetRef
         /\ n < voice.dotNetRef => ~(n > voice.dotNetRef) /\ n # voice.dotNetRef
         /\ n > voice.dotNetRef => n # voice.dotNetRef
         /\ \A k \in Voice!Recording :
              /\ k < n => k # n /\ ~(k > n)
              /\ k > n /\ n > voice.dotNetRef => k > voice.dotNetRef /\ k # n
BY LatestIs DEF Voice!None

\* A component that is shown is that of the latest use.
LEMMA ShownLatest ==
  ASSUME VoiceInv, NEW n \in Voice!Recording, comp[n] \notin {"unused", "gone"}
  PROVE  n = voice.dotNetRef
BY InOrder DEF VoiceInv, InTurn

\* Whatever the object does to wind down, the invariant stays.
LEMMA WindingKeeps ==
  ASSUME VoiceInv, VoiceTyped', NEW q \in Pages, Winds(Voice!Page, q), Voice!Becomes(q),
         asking' = asking, analyses' = analyses, sent' = sent, astray' = astray,
         \A k \in Voice!Recording :
           \/ comp'[k] = comp[k]
           \/ /\ k = voice.dotNetRef /\ comp'[k] # "unused"
              /\ comp'[k] = "gone" /\ k \notin astray /\ Held(k)' => Sounding(k)'
  PROVE  VoiceInv'
<1>1. /\ Voice!Page' = q /\ voice' = q.f /\ recorder' = q.recorder
      /\ Voice!Page.f = voice /\ Voice!Page.recorder = recorder
  BY BecomesPage, PageIs
<1>2. /\ voice'.dotNetRef = voice.dotNetRef
      /\ voice'.stream \in {voice.stream, Voice!None}
      /\ voice'.durationTimer \in {voice.durationTimer, Voice!None}
      /\ voice'.context \in {voice.context, Voice!None}
      /\ voice'.blobUrl \in {voice.blobUrl, Voice!None}
      /\ voice'.chunks \subseteq voice.chunks /\ voice'.blob \subseteq voice.blob
      /\ \A k \in Voice!Recording :
           /\ Unnamed(q, k) => Unnamed(Voice!Page, k)
           /\ \/ recorder'[k] = recorder[k]
              \/ recorder[k] = "recording" /\ recorder'[k] = "stopping"
  BY <1>1 DEF Winds
<1>3. voice.dotNetRef \in Voice!Recording \cup {Voice!None} /\ Voice!None \notin Voice!Recording
  BY LatestIs DEF VoiceInv
<1>4. ASSUME NEW k \in Voice!Recording \ astray
      PROVE  /\ ~Unnamed(q, k)
             /\ Held(k)' => k = voice.dotNetRef /\ (Sounding(k)' \/ comp'[k] # "gone")
             /\ voice'.blobUrl = k => k = voice.dotNetRef /\ recorder'[k] = "inactive"
  <2>1. ~Unnamed(q, k)
    BY <1>2 DEF VoiceInv, Orderly
  <2>2. Held(k)' => Held(k)
    BY <1>2, <1>3 DEF Held
  <2>3. Sounding(k) => Sounding(k)'
    BY <1>2 DEF Sounding
  <2>4. Held(k)' => k = voice.dotNetRef /\ (Sounding(k)' \/ comp'[k] # "gone")
    BY <2>2, <2>3 DEF VoiceInv, Orderly
  <2>5. voice'.blobUrl = k => k = voice.dotNetRef /\ recorder'[k] = "inactive"
    BY <1>2, <1>3 DEF VoiceInv, Orderly
  <2>6. QED
    BY <2>1, <2>4, <2>5
<1>5. Orderly'
  <2>1. /\ \A k \in Voice!Recording \ astray' : ~Unnamed(q, k)
        /\ \A k \in Voice!Recording \ astray' :
             /\ Held(k)' => k = voice'.dotNetRef /\ (Sounding(k)' \/ comp'[k] # "gone")
             /\ voice'.blobUrl = k => k = voice'.dotNetRef /\ recorder'[k] = "inactive"
    BY <1>2, <1>4
  <2>2. \A k \in Voice!Recording \ astray' : ~Unnamed(Voice!Page, k)'
    BY <1>1, <2>1 DEF Unnamed
  <2>3. QED
    BY <2>1, <2>2 DEF Orderly, Held, Sounding, Voice!Recording
<1>6. Alone'
  <2>1. \A k \in Voice!Recording : Voice!Pending(k)' => Voice!Pending(k)
    BY <1>2 DEF Voice!Pending
  <2>2. QED
    BY <1>2, <2>1 DEF VoiceInv, Alone
<1>7. InTurn'
  <2>1. \A k \in Voice!Recording : recorder[k] = "none" => recorder'[k] = "none"
    BY <1>2
  <2>2. ASSUME NEW k \in Voice!Recording
        PROVE  /\ k < voice.dotNetRef => comp'[k] = "gone"
               /\ k > voice.dotNetRef => /\ comp'[k] = "unused" /\ recorder'[k] = "none"
                                         /\ k \notin asking
               /\ k = voice.dotNetRef => comp'[k] # "unused"
               /\ k \in asking => recorder'[k] = "none"
    BY <2>1, InOrder DEF VoiceInv, InTurn
  <2>3. QED
    BY <1>2, <2>2 DEF InTurn, Voice!Recording
<1>8. Voice!SendsOwnAudio'
  BY DEF VoiceInv, Voice!SendsOwnAudio
<1>9. QED
  BY <1>5, <1>6, <1>7, <1>8 DEF VoiceInv

\* A step that leaves the object alone.
LEMMA ObjectKept ==
  ASSUME VoiceInv, VoiceTyped',
         UNCHANGED <<recorder, mics, intervals, contexts, urls, voice, astray>>,
         asking' \subseteq asking, analyses' \subseteq analyses,
         \A k \in Voice!Recording :
           (comp'[k] = "gone" <=> comp[k] = "gone") /\ (comp'[k] = "unused" <=> comp[k] = "unused"),
         Voice!SendsOwnAudio'
  PROVE  VoiceInv'
<1>1. \A k \in Voice!Recording : Unnamed(Voice!Page, k)' <=> Unnamed(Voice!Page, k)
  BY DEF Unnamed, Voice!Page
<1>2. Orderly'
  BY <1>1 DEF VoiceInv, Orderly, Held, Sounding
<1>3. Alone'
  BY DEF VoiceInv, Alone, Voice!Pending
<1>4. InTurn'
  BY DEF VoiceInv, InTurn
<1>5. QED
  BY <1>2, <1>3, <1>4 DEF VoiceInv

\* What is left alone of the voice recorder is still in order.
LEMMA VoiceKept ==
  ASSUME VoiceInv, UNCHANGED voiceVars
  PROVE  VoiceInv'
<1>1. VoiceTyped'
  BY VoiceTypedKept DEF VoiceInv
<1>2. Voice!SendsOwnAudio'
  BY DEF VoiceInv, voiceVars, Voice!SendsOwnAudio
<1>3. QED
  BY <1>1, <1>2, ObjectKept DEF voiceVars

\* A use begins: what is pending goes astray with it, and otherwise all was released.
LEMMA UseKeeps ==
  ASSUME VoiceInv, VoiceTyped', NEW n \in Voice!Recording, Voice!Start(n)
  PROVE  VoiceInv'
<1> DEFINE p == Voice!Page
           a == Voice!RevokePreview(p)
           q == Voice!Started(n, p)
<1>1. /\ p.f = voice /\ p.recorder = recorder /\ p.mics = mics /\ p.urls = urls
      /\ p.intervals = intervals /\ p.contexts = contexts /\ Tame(p)
  BY PageIs DEF VoiceInv, VoiceTyped
<1>2. /\ Tame(a) /\ Winds(p, a) /\ a.f.blobUrl = Voice!None /\ a.f.blob = {}
      /\ a.f.stream = p.f.stream /\ a.f.durationTimer = p.f.durationTimer
      /\ a.f.context = p.f.context /\ a.recorder = p.recorder
  <2> HIDE DEF p
  <2>1. QED
    BY <1>1, RevokeWinds
<1>3. /\ Tame(q) /\ q.recorder = a.recorder /\ q.mics = a.mics /\ q.urls = a.urls
      /\ q.intervals = a.intervals /\ q.contexts = a.contexts
      /\ q.f = [a.f EXCEPT !.dotNetRef = n, !.chunks = {}]
  <2> HIDE DEF p
  <2>1. QED
    BY <1>1, StartedEffect
<1>4. Voice!Becomes(q)
  BY DEF Voice!Start
<1> HIDE DEF a, p, q
<1>5. a.f \in Voice!Fields /\ q \in Pages
  BY <1>2, <1>3, PageFields DEF Tame
<1>6. /\ q.f.dotNetRef = n /\ q.f.chunks = {} /\ q.f.blob = {}
      /\ q.f.blobUrl = Voice!None /\ q.f.stream = voice.stream
      /\ q.f.durationTimer = voice.durationTimer /\ q.f.context = voice.context
  BY <1>1, <1>2, <1>3, <1>5 DEF Voice!Fields
<1>7. Voice!Page' = q /\ voice' = q.f /\ recorder' = recorder
  BY <1>1, <1>2, <1>3, <1>4, <1>5, BecomesPage
<1>8. \A k \in Voice!Recording : Unnamed(q, k) => Unnamed(p, k)
  BY <1>2, <1>3, <1>6, <1>1 DEF Winds, Unnamed
<1>9. /\ n > voice.dotNetRef /\ n \notin asking /\ recorder[n] = "none"
      /\ \A k \in Voice!Recording : k < n => comp[k] = "gone"
      /\ asking' = asking \cup {n} /\ comp' = [comp EXCEPT ![n] = "recording"]
      /\ analyses' = analyses /\ sent' = sent
  <2>1. comp[n] = "unused" /\ (\A k \in Voice!Recording : k < n => comp[k] = "gone")
    BY DEF Voice!Start
  <2>2. n > voice.dotNetRef
    BY <2>1, InOrder DEF VoiceInv, InTurn
  <2>3. QED
    BY <2>1, <2>2 DEF VoiceInv, InTurn, Voice!Start
<1>10. /\ astray \subseteq astray'
       /\ \A k \in Voice!Recording : Voice!Pending(k) => k \in astray' /\ n \in astray'
  BY DEF Voice!Start
<1>11. ASSUME NEW k \in Voice!Recording \ astray'
       PROVE  ~Unnamed(q, k) /\ ~Held(k)' /\ voice'.blobUrl # k
  <2>1. k \in Voice!Recording \ astray /\ ~Voice!Pending(k)
    BY <1>10
  <2>2. ~Unnamed(q, k)
    BY <1>8, <2>1 DEF VoiceInv, Orderly, p
  <2>3. ~Held(k)
    <3>1. SUFFICES ASSUME Held(k) PROVE FALSE
      OBVIOUS
    <3>2. k = voice.dotNetRef /\ comp[k] # "gone"
      BY <2>1, <3>1 DEF VoiceInv, Orderly, Sounding, Voice!Pending
    <3>3. k < n
      BY <1>9, <3>2, LatestIs DEF VoiceInv
    <3>4. QED
      BY <1>9, <3>2, <3>3
  <2>4. QED
    BY <1>6, <1>7, <2>2, <2>3, LatestIs DEF Held, VoiceInv
<1>12. Orderly'
  <2>1. \A k \in Voice!Recording \ astray' : ~Unnamed(Voice!Page, k)'
    BY <1>7, <1>11 DEF Unnamed
  <2>2. QED
    BY <1>11, <2>1 DEF Orderly, Voice!Recording
<1>13. Alone'
  <2>1. \A k \in Voice!Recording : k # n /\ Voice!Pending(k)' => Voice!Pending(k)
    BY <1>7, <1>9 DEF Voice!Pending
  <2>2. QED
    BY <1>6, <1>7, <1>10, <2>1 DEF Alone, Voice!Recording
<1>14. InTurn'
  <2>1. ASSUME NEW k \in Voice!Recording
        PROVE  /\ k < n => comp'[k] = "gone"
               /\ k > n => comp'[k] = "unused" /\ recorder[k] = "none" /\ k \notin asking'
               /\ k = n => comp'[k] # "unused"
               /\ k \in asking' => recorder[k] = "none"
    <3>1. k < n => k # n /\ ~(k > n)
      BY InOrder DEF VoiceInv
    <3>2. k > n => k # n /\ k > voice.dotNetRef
      BY <1>9, InOrder DEF VoiceInv
    <3>3. QED
      BY <1>9, <3>1, <3>2 DEF VoiceInv, InTurn, VoiceTyped
  <2>2. QED
    BY <1>6, <1>7, <2>1 DEF InTurn, Voice!Recording
<1>15. Voice!SendsOwnAudio'
  BY <1>9, <1>10 DEF VoiceInv, Voice!SendsOwnAudio, Voice!Recording
<1>16. QED
  BY <1>12, <1>13, <1>14, <1>15 DEF VoiceInv

\* The await of start() ends with the stream there: only a recording that has gone
\* astray can take the fields of another.
LEMMA AwaitedKeeps ==
  ASSUME VoiceInv, VoiceTyped', NEW n \in Voice!Recording,
         Voice!Granted(n) \/ Voice!Unrecordable(n)
  PROVE  VoiceInv'
<1> DEFINE p == Voice!Page
<1>1. /\ p.f = voice /\ p.recorder = recorder /\ p.mics = mics /\ p.urls = urls
      /\ p.intervals = intervals /\ p.contexts = contexts /\ Tame(p)
  BY PageIs DEF VoiceInv, VoiceTyped
<1>2. PICK q : /\ Voice!Becomes(q) /\ Tame(q)
               /\ \/ q = Voice!Acquired(n, p) /\ Voice!Unrecordable(n)
                  \/ \E audio \in {{}, {n}}, state \in {"inactive", "recording"} :
                       /\ q = Readied(n, p, audio, state)
                       /\ state = "inactive" => Voice!Unrecordable(n)
                       /\ state = "recording" => Voice!Granted(n)
  BY <1>1, AwaitedEffect
<1> HIDE DEF p
<1>3. voice \in Voice!Fields
  BY LatestIs DEF VoiceInv
\* The page that results.
<1>4. /\ q.mics = mics \cup {n} /\ q.f.stream = n
      /\ \/ q.intervals = intervals /\ q.f.durationTimer = voice.durationTimer
         \/ q.intervals = intervals \cup {n} /\ q.f.durationTimer = n
      /\ \/ q.contexts = contexts /\ q.f.context = voice.context
         \/ q.contexts = contexts \cup {n} /\ q.f.context = n
      /\ q.urls = urls /\ q.f.blobUrl = voice.blobUrl
      /\ q.f.blob = voice.blob /\ q.f.chunks = voice.chunks
      /\ q.f.dotNetRef = voice.dotNetRef
      /\ \A k \in Voice!Recording : k # n => q.recorder[k] = recorder[k]
      /\ Voice!Unrecordable(n) \/ q.recorder[n] = "recording"
  <2>1. CASE q = Voice!Acquired(n, p) /\ Voice!Unrecordable(n)
    <3>0. Tame(p)
      BY <1>1
    <3>1. /\ q.recorder = p.recorder
          /\ q.mics = p.mics \cup {n} /\ q.intervals = p.intervals
          /\ q.contexts = p.contexts /\ q.urls = p.urls
          /\ q.f = [p.f EXCEPT !.stream = n]
      BY <2>1, <3>0, AcquiredEffect
    <3>2. QED
      BY <1>1, <1>3, <2>1, <3>1 DEF Voice!Fields
  <2>2. CASE \E audio \in {{}, {n}}, state \in {"inactive", "recording"} :
               /\ q = Readied(n, p, audio, state)
               /\ state = "inactive" => Voice!Unrecordable(n)
               /\ state = "recording" => Voice!Granted(n)
    <3>1. PICK audio \in {{}, {n}}, state \in {"inactive", "recording"} :
               /\ q = Readied(n, p, audio, state)
               /\ state = "inactive" => Voice!Unrecordable(n)
               /\ state = "recording" => Voice!Granted(n)
      BY <2>2
    <3>2. /\ q.recorder = [p.recorder EXCEPT ![n] = state]
          /\ q.mics = p.mics \cup {n} /\ q.intervals = p.intervals \cup {n}
          /\ q.contexts = p.contexts \cup audio /\ q.urls = p.urls
          /\ q.f = ReadiedFields(n, p.f, audio)
      <4>1. Tame(p)
        BY <1>1
      <4>2. MadeReady(n, p, audio, state, q)
        BY <3>1, <4>1, ReadiedEffect
      <4>3. QED
        BY <4>2 DEF MadeReady
    <3>3. /\ q.f.stream = n /\ q.f.durationTimer = n /\ q.f.blobUrl = voice.blobUrl
          /\ q.f.blob = voice.blob /\ q.f.chunks = voice.chunks
          /\ q.f.dotNetRef = voice.dotNetRef
          /\ q.f.context = IF audio = {} THEN voice.context ELSE n
      BY <1>1, <1>3, <3>2 DEF Voice!Fields, ReadiedFields
    <3>4. \/ q.contexts = contexts /\ q.f.context = voice.context
          \/ q.contexts = contexts \cup {n} /\ q.f.context = n
      BY <1>1, <3>2, <3>3
    <3>5. /\ \A k \in Voice!Recording : k # n => q.recorder[k] = recorder[k]
          /\ q.recorder[n] = state
      BY <1>1, <3>2 DEF Tame, Pages
    <3>6. QED
      BY <1>1, <3>1, <3>2, <3>3, <3>4, <3>5
  <2>3. QED
    BY <1>2, <2>1, <2>2
<1>5. Voice!Page' = q /\ voice' = q.f /\ recorder' = q.recorder
  BY <1>2, BecomesPage DEF Tame
<1>6. /\ n \in asking /\ asking' = asking \ {n} /\ analyses' = analyses /\ sent' = sent
      /\ astray \subseteq astray'
      /\ Voice!Unrecordable(n) /\ n \notin astray' => comp[n] # "gone"
      /\ \A k \in Voice!Recording : /\ comp'[k] = "gone" <=> comp[k] = "gone"
                                    /\ comp'[k] = "unused" <=> comp[k] = "unused"
  <2>1. CASE Voice!Granted(n)
    <3>1. n \in asking /\ ~(Voice!Unrecordable(n) /\ n \notin astray' /\ comp[n] = "gone")
      BY <2>1 DEF Voice!Granted, Voice!Unrecordable
    <3>2. QED
      BY <2>1, <3>1 DEF Voice!Granted
  <2>2. CASE Voice!Unrecordable(n)
    <3>1. \A k \in Voice!Recording : /\ comp'[k] = "gone" <=> comp[k] = "gone"
                                     /\ comp'[k] = "unused" <=> comp[k] = "unused"
      BY <2>2 DEF Voice!Unrecordable, Voice!Rejected, Voice!Shown
    <3>2. QED
      BY <2>2, <3>1 DEF Voice!Unrecordable
  <2>3. QED
    BY <2>1, <2>2
<1>7. Voice!Pending(n) /\ recorder[n] = "none"
  BY <1>6 DEF Voice!Pending, VoiceInv, InTurn
<1>8. ASSUME NEW k \in Voice!Recording \ astray'
      PROVE  /\ ~Unnamed(q, k)
             /\ Held(k)' => k = voice.dotNetRef /\ (Sounding(k)' \/ comp'[k] # "gone")
             /\ q.f.blobUrl = k => k = voice.dotNetRef /\ q.recorder[k] = "inactive"
  <2>1. /\ k \in Voice!Recording \ astray /\ ~Unnamed(p, k)
        /\ Held(k) => k = voice.dotNetRef
        /\ voice.blobUrl = k => k = voice.dotNetRef /\ recorder[k] = "inactive"
    BY <1>6 DEF VoiceInv, Orderly, p
  <2>2. CASE k = n
    <3>1. n = voice.dotNetRef
      BY <1>7, <2>1, <2>2 DEF VoiceInv, Alone
    <3>2. ~Unnamed(q, k)
      BY <1>1, <1>4, <2>1, <2>2 DEF Unnamed
    <3>3. Sounding(k)' \/ comp'[k] # "gone"
      BY <1>4, <1>5, <1>6, <2>2 DEF Sounding
    <3>4. voice.blobUrl # k
      BY <1>7, <2>1, <2>2
    <3>5. QED
      BY <1>4, <2>2, <3>1, <3>2, <3>3, <3>4
  <2>3. CASE k # n
    <3>1. k # voice.dotNetRef
      BY <1>7, <2>1, <2>3 DEF VoiceInv, Alone
    <3>2. ~Held(k) /\ voice.blobUrl # k
      BY <2>1, <3>1
    <3>3. /\ k \notin mics /\ k \notin intervals /\ k \notin contexts /\ k \notin urls
      BY <1>1, <2>1, <3>2 DEF Unnamed, Held
    <3>4. ~Unnamed(q, k)
      BY <1>4, <2>3, <3>3 DEF Unnamed
    <3>5. ~Held(k)'
      BY <1>4, <1>5, <2>3, <3>2 DEF Held
    <3>6. QED
      BY <1>4, <3>2, <3>4, <3>5
  <2>4. QED
    BY <2>2, <2>3
<1>9. Orderly'
  <2>1. \A k \in Voice!Recording \ astray' : ~Unnamed(Voice!Page, k)'
    BY <1>5, <1>8 DEF Unnamed
  <2>2. \A k \in Voice!Recording \ astray' :
          /\ Held(k)' => k = voice'.dotNetRef /\ (Sounding(k)' \/ comp'[k] # "gone")
          /\ voice'.blobUrl = k => k = voice'.dotNetRef /\ recorder'[k] = "inactive"
    BY <1>4, <1>5, <1>8
  <2>3. QED
    BY <2>1, <2>2 DEF Orderly, Held, Sounding, Voice!Recording
<1>10. Alone'
  <2>1. ASSUME NEW k \in Voice!Recording, k # voice.dotNetRef, Voice!Pending(k)',
               k \notin astray' \/ voice.dotNetRef \notin astray'
        PROVE  FALSE
    <3>1. Voice!Pending(k)
      BY <1>4, <1>5, <1>6, <1>7, <2>1 DEF Voice!Pending
    <3>2. QED
      BY <1>6, <2>1, <3>1 DEF VoiceInv, Alone
  <2>2. voice.dotNetRef \notin astray' =>
          voice.chunks \cup voice.blob \subseteq {voice.dotNetRef}
    BY <1>6 DEF VoiceInv, Alone
  <2>3. QED
    BY <1>4, <1>5, <2>1, <2>2 DEF Alone, Voice!Recording
<1>11. InTurn'
  <2>1. ASSUME NEW k \in Voice!Recording
        PROVE  /\ k < voice.dotNetRef => comp'[k] = "gone"
               /\ k > voice.dotNetRef => /\ comp'[k] = "unused" /\ q.recorder[k] = "none"
                                         /\ k \notin asking'
               /\ k = voice.dotNetRef => comp'[k] # "unused"
               /\ k \in asking' => q.recorder[k] = "none"
    BY <1>4, <1>6 DEF VoiceInv, InTurn
  <2>2. QED
    BY <1>4, <1>5, <2>1 DEF InTurn, Voice!Recording
<1>12. Voice!SendsOwnAudio'
  BY <1>6 DEF VoiceInv, Voice!SendsOwnAudio, Voice!Recording
<1>13. QED
  BY <1>9, <1>10, <1>11, <1>12 DEF VoiceInv

\* The component is taken away.
LEMMA DisposeKeeps ==
  ASSUME VoiceInv, VoiceTyped', NEW n \in Voice!Recording, Voice!Dispose(n)
  PROVE  VoiceInv'
<1> DEFINE p == Voice!Page
           q == Voice!Cancel(p)
<1>1. Tame(p) /\ p.f = voice /\ p.recorder = recorder
  BY PageIs DEF VoiceInv, VoiceTyped
<1>2. /\ Tame(q) /\ Winds(p, q)
      /\ \/ \E m \in Voice!Recording :
              p.recorder[m] = "recording" /\ q.recorder[m] = "stopping"
         \/ /\ q.f.stream = Voice!None /\ q.f.context = Voice!None
            /\ q.f.durationTimer = Voice!None
  <2> HIDE DEF p
  <2>1. QED
    BY <1>1, CancelWinds
<1>3. /\ Voice!Becomes(q) /\ comp' = [comp EXCEPT ![n] = "gone"]
      /\ asking' = asking /\ analyses' = analyses /\ sent' = sent /\ astray' = astray
  BY DEF Voice!Dispose
<1>4. n = voice.dotNetRef
  BY ShownLatest DEF Voice!Dispose, Voice!Shown
<1> HIDE DEF p, q
<1>5. voice' = q.f /\ recorder' = q.recorder
  BY <1>2, <1>3, BecomesPage DEF Tame
<1>6. n \notin astray /\ Held(n)' => Sounding(n)'
  <2>1. SUFFICES ASSUME n \notin astray, Held(n)' PROVE Sounding(n)'
    OBVIOUS
  <2>2. PICK m \in Voice!Recording : p.recorder[m] = "recording" /\ q.recorder[m] = "stopping"
    BY <1>2, <1>5, <2>1, LatestIs DEF Held, VoiceInv
  <2>3. Voice!Pending(m)
    BY <1>1, <2>2 DEF Voice!Pending
  <2>4. m = n
    BY <1>4, <2>1, <2>3 DEF VoiceInv, Alone
  <2>5. QED
    BY <1>5, <2>2, <2>4 DEF Sounding
<1>7. \A k \in Voice!Recording :
        \/ comp'[k] = comp[k]
        \/ /\ k = voice.dotNetRef /\ comp'[k] # "unused"
           /\ comp'[k] = "gone" /\ k \notin astray /\ Held(k)' => Sounding(k)'
  BY <1>3, <1>4, <1>6 DEF VoiceInv, VoiceTyped
<1>8. QED
  BY <1>2, <1>3, <1>7, WindingKeeps DEF p, Tame

\* Data arrives: it is the latest recording's, or more than one is about.
LEMMA ChunkKeeps ==
  ASSUME VoiceInv, VoiceTyped', NEW n \in Voice!Recording, Voice!Chunk(n)
  PROVE  VoiceInv'
<1>1. voice \in Voice!Fields
  BY LatestIs DEF VoiceInv
<1>2. /\ voice'.dotNetRef = voice.dotNetRef /\ voice'.stream = voice.stream
      /\ voice'.durationTimer = voice.durationTimer /\ voice'.context = voice.context
      /\ voice'.blobUrl = voice.blobUrl /\ voice'.blob = voice.blob
      /\ voice'.chunks = voice.chunks \cup {n}
  BY <1>1 DEF Voice!Chunk, Voice!Fields
<1>3. /\ UNCHANGED <<comp, asking, recorder, mics, intervals, contexts, analyses, urls>>
      /\ UNCHANGED <<sent, astray>> /\ recorder[n] = "recording"
  BY DEF Voice!Chunk
<1>4. \A k \in Voice!Recording : Unnamed(Voice!Page, k)' <=> Unnamed(Voice!Page, k)
  BY <1>2, <1>3 DEF Unnamed, Voice!Page
<1>5. Orderly'
  BY <1>2, <1>3, <1>4 DEF VoiceInv, Orderly, Held, Sounding
<1>6. Voice!Pending(n)
  BY <1>3 DEF Voice!Pending
<1>7. Alone'
  BY <1>2, <1>3, <1>6 DEF VoiceInv, Alone, Voice!Pending
<1>8. InTurn'
  BY <1>2, <1>3 DEF VoiceInv, InTurn
<1>9. Voice!SendsOwnAudio'
  BY <1>3 DEF VoiceInv, Voice!SendsOwnAudio
<1>10. QED
  BY <1>5, <1>7, <1>8, <1>9 DEF VoiceInv

\* What onstop makes of the page: nothing that runs is named any more, and the blob is
\* the old one, or a new one of the chunks there are.
LEMMA OnStopEffect ==
  ASSUME VoiceTyped, NEW n \in Voice!Recording, Voice!StopEvent(n)
  PROVE  \E q \in Pages :
           /\ Voice!Becomes(q) /\ q.f.dotNetRef = voice.dotNetRef
           /\ q.f.stream = Voice!None /\ q.f.context = Voice!None
           /\ q.f.durationTimer = Voice!None
           /\ q.f.chunks \subseteq voice.chunks \cup {n}
           /\ q.recorder[n] = "inactive"
           /\ \A k \in Voice!Recording :
                /\ \/ k = n
                   \/ q.recorder[k] = recorder[k]
                   \/ recorder[k] = "recording" /\ q.recorder[k] = "stopping"
                /\ Unnamed(q, k) => \/ Unnamed(Voice!Page, k)
                                    \/ q.f.blobUrl = n /\ k # n /\ voice.blobUrl = k
           /\ \/ /\ q.f.blobUrl \in {voice.blobUrl, Voice!None}
                 /\ q.f.blob \subseteq voice.blob
              \/ q.f.blobUrl = n /\ q.f.blob \subseteq voice.chunks \cup {n}
           /\ analyses' \in {analyses, analyses \cup {n}}
<1> DEFINE P == Voice!Page
           a == [P EXCEPT !.recorder[n] = "inactive"]
           s == Voice!Stopped(n, P)
<1>1. P.f = voice /\ P.recorder = recorder /\ Tame(P)
  BY PageIs DEF VoiceTyped
<1>2. PICK kept \in SUBSET Voice!Recording :
        LET r == [s EXCEPT !.f.chunks = kept]
        IN  /\ kept \subseteq s.f.chunks \cup {n}
            /\ \/ /\ Voice!Becomes(Voice!Cleanup(r)) /\ Tame(Voice!Cleanup(r))
                  /\ kept = {} /\ analyses' = analyses
               \/ /\ Voice!Becomes(WithBlob(n, r)) /\ Tame(WithBlob(n, r))
                  /\ kept # {} /\ analyses' = analyses \cup {n}
  BY <1>1, StopEventEffect
<1>3. /\ Tame(s) /\ Winds(a, s)
      /\ a.f = P.f /\ a.recorder = [P.recorder EXCEPT ![n] = "inactive"]
      /\ a.mics = P.mics /\ a.intervals = P.intervals
      /\ a.contexts = P.contexts /\ a.urls = P.urls
      /\ s.f.stream = Voice!None /\ s.f.context = Voice!None
      /\ s.f.durationTimer = Voice!None
  <2> HIDE DEF P
  <2>1. QED
    BY <1>1, StoppedWinds
<1> HIDE DEF P, a, s
<1> DEFINE r == [s EXCEPT !.f.chunks = kept]
<1>4. s.f \in Voice!Fields /\ voice \in Voice!Fields
  BY <1>1, <1>3, PageFields DEF Tame
<1>5. /\ Tame(r) /\ r.recorder = s.recorder /\ r.mics = s.mics
      /\ r.intervals = s.intervals /\ r.contexts = s.contexts /\ r.urls = s.urls
      /\ r.f = [s.f EXCEPT !.chunks = kept]
  BY <1>3, ChunksEffect
<1>6. /\ kept \subseteq s.f.chunks \cup {n}
      /\ \/ /\ Voice!Becomes(Voice!Cleanup(r)) /\ Tame(Voice!Cleanup(r))
            /\ analyses' = analyses
         \/ /\ Voice!Becomes(WithBlob(n, r)) /\ Tame(WithBlob(n, r))
            /\ kept # {} /\ analyses' = analyses \cup {n}
  BY <1>2
<1> HIDE DEF r
<1>7. /\ r.f.dotNetRef = voice.dotNetRef /\ r.f.stream = Voice!None
      /\ r.f.context = Voice!None /\ r.f.durationTimer = Voice!None
      /\ r.f.chunks = kept /\ r.f.chunks \subseteq voice.chunks \cup {n}
      /\ r.f.blobUrl \in {voice.blobUrl, Voice!None} /\ r.f.blob \subseteq voice.blob
  <2>1. /\ s.f.dotNetRef = voice.dotNetRef /\ s.f.chunks \subseteq voice.chunks
        /\ s.f.blobUrl \in {voice.blobUrl, Voice!None} /\ s.f.blob \subseteq voice.blob
    BY <1>1, <1>3 DEF Winds
  <2>2. /\ r.f.dotNetRef = s.f.dotNetRef /\ r.f.stream = s.f.stream
        /\ r.f.context = s.f.context /\ r.f.durationTimer = s.f.durationTimer
        /\ r.f.chunks = kept /\ r.f.blobUrl = s.f.blobUrl /\ r.f.blob = s.f.blob
    BY <1>4, <1>5 DEF Voice!Fields
  <2>3. QED
    BY <1>3, <1>6, <2>1, <2>2
<1>8. \A k \in Voice!Recording :
        /\ \/ k = n
           \/ r.recorder[k] = recorder[k]
           \/ recorder[k] = "recording" /\ r.recorder[k] = "stopping"
        /\ Unnamed(r, k) => Unnamed(P, k)
  <2>1. ASSUME NEW k \in Voice!Recording
        PROVE  /\ k # n => a.recorder[k] = recorder[k]
               /\ Unnamed(a, k) => Unnamed(P, k)
    BY <1>1, <1>3 DEF Unnamed, Tame, Pages
  <2>2. ASSUME NEW k \in Voice!Recording
        PROVE  Unnamed(r, k) => Unnamed(s, k)
    BY <1>4, <1>5 DEF Unnamed, Voice!Fields
  <2>3. QED
    BY <1>3, <1>5, <2>1, <2>2 DEF Winds
<1>9. r.recorder[n] = "inactive"
  <2>1. a.recorder[n] = "inactive"
    BY <1>1, <1>3 DEF Tame, Pages
  <2>2. QED
    BY <1>3, <1>5, <2>1 DEF Winds
<1>10. CASE /\ Voice!Becomes(Voice!Cleanup(r)) /\ Tame(Voice!Cleanup(r))
            /\ analyses' = analyses
  <2> DEFINE q == Voice!Cleanup(r)
  <2>1. /\ Tame(q) /\ Winds(r, q) /\ q.f.stream = Voice!None
        /\ q.f.context = Voice!None /\ q.f.durationTimer = r.f.durationTimer
    BY <1>5, CleanupWinds
  <2>2. Voice!Becomes(q) /\ q \in Pages /\ analyses' = analyses
    BY <1>10 DEF Tame
  <2> HIDE DEF q
  <2>3. /\ q.f.dotNetRef = voice.dotNetRef /\ q.f.chunks \subseteq voice.chunks \cup {n}
        /\ q.f.blobUrl \in {voice.blobUrl, Voice!None} /\ q.f.blob \subseteq voice.blob
    BY <1>7, <2>1 DEF Winds
  <2>4. q.recorder[n] = "inactive"
    BY <1>9, <2>1 DEF Winds
  <2>5. \A k \in Voice!Recording :
          /\ \/ k = n
             \/ q.recorder[k] = recorder[k]
             \/ recorder[k] = "recording" /\ q.recorder[k] = "stopping"
          /\ Unnamed(q, k) => Unnamed(P, k)
    BY <1>8, <2>1 DEF Winds
  <2>6. QED
    BY <1>7, <2>1, <2>2, <2>3, <2>4, <2>5 DEF P
<1>11. CASE /\ Voice!Becomes(WithBlob(n, r)) /\ Tame(WithBlob(n, r))
            /\ kept # {} /\ analyses' = analyses \cup {n}
  <2> DEFINE q == WithBlob(n, r)
  <2>1. /\ Tame(q) /\ q.recorder = r.recorder /\ q.mics = r.mics
        /\ q.intervals = r.intervals /\ q.contexts = r.contexts
        /\ q.urls = r.urls \cup {n}
        /\ q.f = [r.f EXCEPT !.blob = r.f.chunks, !.blobUrl = n]
    BY <1>5, <1>7, <1>11, BlobEffect
  <2>2. Voice!Becomes(q) /\ q \in Pages /\ analyses' = analyses \cup {n}
    BY <1>11 DEF Tame
  <2> HIDE DEF q
  <2>3. r.f \in Voice!Fields
    BY <1>5, PageFields DEF Tame
  <2>4. /\ q.f.dotNetRef = r.f.dotNetRef /\ q.f.stream = r.f.stream
        /\ q.f.context = r.f.context /\ q.f.durationTimer = r.f.durationTimer
        /\ q.f.chunks = r.f.chunks /\ q.f.blobUrl = n /\ q.f.blob = r.f.chunks
    BY <2>1, <2>3 DEF Voice!Fields
  <2>5. ASSUME NEW k \in Voice!Recording, Unnamed(q, k)
        PROVE  Unnamed(P, k) \/ (q.f.blobUrl = n /\ k # n /\ voice.blobUrl = k)
    <3>1. Unnamed(r, k) \/ (k # n /\ r.f.blobUrl = k)
      BY <2>1, <2>4, <2>5 DEF Unnamed
    <3>2. k # Voice!None
      BY PageFields, <1>1 DEF Tame
    <3>3. QED
      BY <1>7, <1>8, <2>4, <3>1, <3>2
  <2>6. /\ q.f.stream = Voice!None /\ q.f.context = Voice!None
        /\ q.f.durationTimer = Voice!None /\ q.f.dotNetRef = voice.dotNetRef
        /\ q.f.chunks \subseteq voice.chunks \cup {n} /\ q.recorder[n] = "inactive"
        /\ q.f.blobUrl = n /\ q.f.blob \subseteq voice.chunks \cup {n}
    BY <1>7, <1>9, <2>1, <2>4
  <2>7. \A k \in Voice!Recording :
          /\ \/ k = n
             \/ q.recorder[k] = recorder[k]
             \/ recorder[k] = "recording" /\ q.recorder[k] = "stopping"
          /\ Unnamed(q, k) => \/ Unnamed(P, k)
                              \/ q.f.blobUrl = n /\ k # n /\ voice.blobUrl = k
    BY <1>8, <2>1, <2>5
  <2>8. QED
    BY <2>2, <2>6, <2>7 DEF P
<1>12. QED
  BY <1>6, <1>10, <1>11

\* A recorder tells that it has stopped.
LEMMA StopEventKeeps ==
  ASSUME VoiceInv, VoiceTyped', NEW n \in Voice!Recording, Voice!StopEvent(n)
  PROVE  VoiceInv'
<1>1. PICK q \in Pages :
           /\ Voice!Becomes(q) /\ q.f.dotNetRef = voice.dotNetRef
           /\ q.f.stream = Voice!None /\ q.f.context = Voice!None
           /\ q.f.durationTimer = Voice!None
           /\ q.f.chunks \subseteq voice.chunks \cup {n}
           /\ q.recorder[n] = "inactive"
           /\ \A k \in Voice!Recording :
                /\ \/ k = n
                   \/ q.recorder[k] = recorder[k]
                   \/ recorder[k] = "recording" /\ q.recorder[k] = "stopping"
                /\ Unnamed(q, k) => \/ Unnamed(Voice!Page, k)
                                    \/ q.f.blobUrl = n /\ k # n /\ voice.blobUrl = k
           /\ \/ /\ q.f.blobUrl \in {voice.blobUrl, Voice!None}
                 /\ q.f.blob \subseteq voice.blob
              \/ q.f.blobUrl = n /\ q.f.blob \subseteq voice.chunks \cup {n}
           /\ analyses' \in {analyses, analyses \cup {n}}
  BY OnStopEffect DEF VoiceInv
<1>2. Voice!Page' = q /\ voice' = q.f /\ recorder' = q.recorder
  BY <1>1, BecomesPage
<1>3. /\ recorder[n] = "stopping" /\ comp' = comp /\ asking' = asking
      /\ sent' = sent /\ astray' = astray
  BY DEF Voice!StopEvent
<1>4. /\ Voice!Pending(n)
      /\ n = voice.dotNetRef \/ (n \in astray /\ voice.dotNetRef \in astray)
  BY <1>3 DEF VoiceInv, Alone, Voice!Pending
<1>5. \A k \in Voice!Recording : ~Held(k)'
  BY <1>1, <1>2, LatestIs DEF Held, VoiceInv
<1>6. ASSUME NEW k \in Voice!Recording \ astray
      PROVE  /\ ~Unnamed(q, k)
             /\ q.f.blobUrl = k => k = voice.dotNetRef /\ q.recorder[k] = "inactive"
  <2>1. /\ ~Unnamed(Voice!Page, k)
        /\ voice.blobUrl = k => k = voice.dotNetRef /\ recorder[k] = "inactive"
    BY DEF VoiceInv, Orderly
  <2>2. ~Unnamed(q, k)
    BY <1>1, <1>4, <2>1
  <2>3. CASE q.f.blobUrl = n
    BY <1>1, <1>4, <2>2, <2>3
  <2>4. CASE q.f.blobUrl \in {voice.blobUrl, Voice!None}
    BY <1>1, <1>3, <2>1, <2>2, <2>4, LatestIs DEF VoiceInv
  <2>5. QED
    BY <1>1, <2>2, <2>3, <2>4
<1>7. Orderly'
  <2>1. \A k \in Voice!Recording \ astray' : ~Unnamed(Voice!Page, k)'
    BY <1>2, <1>3, <1>6 DEF Unnamed
  <2>2. \A k \in Voice!Recording \ astray' :
          voice'.blobUrl = k => k = voice'.dotNetRef /\ recorder'[k] = "inactive"
    BY <1>1, <1>2, <1>3, <1>6
  <2>3. QED
    BY <1>5, <2>1, <2>2 DEF Orderly, Voice!Recording
<1>8. Alone'
  <2>1. \A k \in Voice!Recording : Voice!Pending(k)' => Voice!Pending(k)
    BY <1>1, <1>2, <1>3, <1>4 DEF Voice!Pending
  <2>2. voice.dotNetRef \notin astray =>
          q.f.chunks \cup q.f.blob \subseteq {voice.dotNetRef}
    BY <1>1, <1>4 DEF VoiceInv, Alone
  <2>3. ASSUME NEW k \in Voice!Recording, k # voice.dotNetRef,
               k \notin astray \/ voice.dotNetRef \notin astray
        PROVE  ~Voice!Pending(k)'
    BY <2>1, <2>3 DEF VoiceInv, Alone
  <2>4. QED
    BY <1>1, <1>2, <1>3, <2>2, <2>3 DEF Alone, Voice!Recording
<1>9. InTurn'
  <2>1. \A k \in Voice!Recording : recorder[k] = "none" => recorder'[k] = "none"
    BY <1>1, <1>2, <1>3
  <2>2. ASSUME NEW k \in Voice!Recording
        PROVE  /\ k < voice.dotNetRef => comp[k] = "gone"
               /\ k > voice.dotNetRef => /\ comp[k] = "unused" /\ recorder'[k] = "none"
                                         /\ k \notin asking
               /\ k = voice.dotNetRef => comp[k] # "unused"
               /\ k \in asking => recorder'[k] = "none"
    BY <2>1 DEF VoiceInv, InTurn
  <2>3. QED
    BY <1>1, <1>2, <1>3, <2>2 DEF InTurn, Voice!Recording
<1>10. Voice!SendsOwnAudio'
  BY <1>3 DEF VoiceInv, Voice!SendsOwnAudio
<1>11. QED
  BY <1>7, <1>8, <1>9, <1>10 DEF VoiceInv

\* Every step of the recorder and its component keeps the invariant.
LEMMA NextVoice ==
  ASSUME VoiceInv, Voice!Next
  PROVE  VoiceInv'
<1> DEFINE p == Voice!Page
<1>1. VoiceTyped' /\ VoiceTyped /\ Tame(p)
  BY NextVoiceTyped DEF VoiceInv, VoiceTyped
<1>2. PICK n \in Voice!Recording :
        \/ Voice!Start(n) \/ Voice!Granted(n) \/ Voice!Unrecordable(n) \/ Voice!Denied(n)
        \/ Voice!StopRecording(n) \/ Voice!CancelRecording(n) \/ Voice!Delete(n)
        \/ Voice!Send(n) \/ Voice!Sent(n) \/ Voice!Dispose(n)
        \/ Voice!Chunk(n) \/ Voice!Elapsed(n) \/ Voice!StopEvent(n) \/ Voice!Analysed(n)
  BY DEF Voice!Next
<1>3. ASSUME \/ Voice!StopRecording(n) \/ Voice!CancelRecording(n) \/ Voice!Delete(n)
             \/ Voice!Sent(n) \/ Voice!Elapsed(n)
      PROVE  VoiceInv'
  <2>1. /\ asking' = asking /\ analyses' = analyses /\ sent' = sent /\ astray' = astray
        /\ \/ comp' = comp
           \/ comp[n] \notin {"unused", "gone"} /\ comp' = [comp EXCEPT ![n] = "leaving"]
    BY <1>3 DEF Voice!StopRecording, Voice!CancelRecording, Voice!Delete, Voice!Sent, Voice!Elapsed
  <2>2. PICK q \in {Voice!Stop(p), Voice!Cancel(p), Voice!RevokePreview(p)} : Voice!Becomes(q)
    BY <1>3 DEF Voice!StopRecording, Voice!CancelRecording, Voice!Delete, Voice!Sent, Voice!Elapsed
  <2>3. q \in Pages /\ Winds(p, q)
    <3> HIDE DEF p
    <3>1. Tame(Voice!Stop(p)) /\ Winds(p, Voice!Stop(p))
      BY <1>1, StopWinds
    <3>2. Tame(Voice!Cancel(p)) /\ Winds(p, Voice!Cancel(p))
      BY <1>1, CancelWinds
    <3>3. Tame(Voice!RevokePreview(p)) /\ Winds(p, Voice!RevokePreview(p))
      BY <1>1, RevokeWinds
    <3>4. QED
      BY <2>2, <3>1, <3>2, <3>3 DEF Tame
  <2>4. \A k \in Voice!Recording :
          \/ comp'[k] = comp[k]
          \/ k = voice.dotNetRef /\ comp'[k] = "leaving"
    BY <1>1, <2>1, ShownLatest DEF VoiceTyped
  <2>5. QED
    BY <1>1, <2>1, <2>2, <2>3, <2>4, WindingKeeps
<1>4. CASE Voice!Denied(n)
  <2>1. \A k \in Voice!Recording :
          (comp'[k] = "gone" <=> comp[k] = "gone") /\ (comp'[k] = "unused" <=> comp[k] = "unused")
    BY <1>4 DEF Voice!Denied, Voice!Rejected, Voice!Shown
  <2>2. /\ UNCHANGED <<recorder, mics, intervals, contexts, urls, voice, astray>>
        /\ asking' \subseteq asking /\ analyses' = analyses /\ sent' = sent
    BY <1>4 DEF Voice!Denied
  <2>3. Voice!SendsOwnAudio'
    BY <2>2 DEF VoiceInv, Voice!SendsOwnAudio
  <2>4. QED
    BY <1>1, <2>1, <2>2, <2>3, ObjectKept
<1>5. CASE Voice!Send(n)
  <2>1. /\ comp[n] = "preview" /\ comp' = [comp EXCEPT ![n] = "sending"]
        /\ UNCHANGED <<recorder, mics, intervals, contexts, urls, voice, astray>>
        /\ asking' = asking /\ analyses' = analyses
        /\ sent' = [sent EXCEPT ![n] = voice.blob]
    BY <1>5 DEF Voice!Send
  <2>2. \A k \in Voice!Recording :
          (comp'[k] = "gone" <=> comp[k] = "gone") /\ (comp'[k] = "unused" <=> comp[k] = "unused")
    BY <1>1, <2>1 DEF VoiceTyped
  <2>3. n \notin astray => voice.blob \subseteq {n}
    BY <2>1, ShownLatest DEF VoiceInv, Alone
  <2>4. Voice!SendsOwnAudio'
    BY <1>1, <2>1, <2>3 DEF VoiceInv, VoiceTyped, Voice!SendsOwnAudio, Voice!Recording
  <2>5. QED
    BY <1>1, <2>1, <2>2, <2>4, ObjectKept
<1>6. CASE Voice!Analysed(n)
  <2>1. /\ UNCHANGED <<recorder, mics, intervals, contexts, urls, voice, astray>>
        /\ asking' = asking /\ analyses' \subseteq analyses /\ sent' = sent
    BY <1>6 DEF Voice!Analysed
  <2>2. \A k \in Voice!Recording :
          (comp'[k] = "gone" <=> comp[k] = "gone") /\ (comp'[k] = "unused" <=> comp[k] = "unused")
    BY <1>1, <1>6 DEF VoiceTyped, Voice!Analysed
  <2>3. Voice!SendsOwnAudio'
    BY <2>1 DEF VoiceInv, Voice!SendsOwnAudio
  <2>4. QED
    BY <1>1, <2>1, <2>2, <2>3, ObjectKept
<1>7. QED
  BY <1>1, <1>2, <1>3, <1>4, <1>5, <1>6, UseKeeps, AwaitedKeeps, DisposeKeeps, ChunkKeeps,
     StopEventKeeps

\* At first nothing runs.
LEMMA InitVoice == Voice!Init => VoiceInv
<1> SUFFICES ASSUME Voice!Init PROVE VoiceInv
  OBVIOUS
<1>1. VoiceTyped
  BY VoiceTypedInit
<1>2. /\ Voice!None \notin Voice!Recording
      /\ voice.dotNetRef = Voice!None /\ voice.stream = Voice!None
      /\ voice.durationTimer = Voice!None /\ voice.context = Voice!None
      /\ voice.blobUrl = Voice!None
  BY <1>1, LatestIs DEF Voice!Init
<1>3. Orderly
  BY <1>2, PageIs DEF Voice!Init, Orderly, Held, Unnamed
<1>4. Alone
  BY DEF Voice!Init, Alone, Voice!Pending
<1>5. InTurn
  BY <1>1, <1>2, LatestIs DEF Voice!Init, InTurn, Voice!None, Voice!Recording
<1>6. QED
  BY <1>1, <1>3, <1>4, <1>5 DEF VoiceInv, Voice!SendsOwnAudio, Voice!Init

LEMMA VoiceAlways == PageSpec => []VoiceInv
<1>1. PageInit => VoiceInv
  BY InitVoice DEF PageInit
<1>2. VoiceInv /\ [PageNext]_pageVars => VoiceInv'
  BY VoiceKept, NextVoice DEF PageNext, pageVars
<1>3. QED
  BY <1>1, <1>2, PTL DEF PageSpec

\* A recording started after all earlier ones had ended sends only what it recorded,
\* though the chunks and the blob are shared (voice-recorder.js).
THEOREM OwnAudioSent == PageSpec => []SendsOwnAudio
<1>1. VoiceInv => SendsOwnAudio
  BY DEF VoiceInv, SendsOwnAudio
<1>2. QED
  BY <1>1, VoiceAlways, PTL

\* When all components are gone and nothing is pending, only recordings that went astray
\* have left a stream, timer or context running (cancel, onstop, cleanup).
THEOREM NothingLeftRunning == PageSpec => []AllReleased
<1>1. ASSUME VoiceInv PROVE AllReleased
  <2>1. SUFFICES ASSUME \A n \in Voice!Recording :
                          comp[n] \in {"unused", "gone"} /\ ~Voice!Pending(n)
                 PROVE  /\ mics \cup intervals \cup contexts \subseteq astray
                        /\ urls \subseteq astray \cup {voice.blobUrl}
    BY DEF AllReleased, Voice!AllReleased
  <2>2. /\ mics \subseteq Voice!Recording /\ intervals \subseteq Voice!Recording
        /\ contexts \subseteq Voice!Recording /\ urls \subseteq Voice!Recording
    BY <1>1, LatestIs, PageIs DEF Pages, VoiceInv
  <2>3. ASSUME NEW k \in Voice!Recording \ astray
        PROVE  ~Held(k) /\ ~Unnamed(Voice!Page, k)
    BY <1>1, <2>1, <2>3 DEF VoiceInv, Orderly, InTurn, Sounding, Voice!Pending
  <2>4. QED
    BY <2>2, <2>3, PageIs DEF Held, Unnamed
<1>2. QED
  BY <1>1, VoiceAlways, PTL

-----------------------------------------------------------------------------
(* The conversions.                                                        *)

\* The types of what a conversion keeps; a size is not bounded here.
Sizes == [w : Nat, h : Nat]
MediaTyped ==
  /\ kind \in [Task -> {"none", "compression", "thumbnail", "video", "pdf"}]
  /\ at \in [Task -> {"nothing", "load", "seek", "blob", "bytes", "script", "document", "page"}]
  /\ promise \in [Task -> {"pending", "resolved", "rejected"}]
  /\ unreadable \subseteq Task /\ objectUrls \subseteq Task /\ timers \subseteq Task
  /\ source \in [Task -> Sizes] /\ canvas \in [Task -> Sizes]

Pictures == Media!Images \cup {"video"}

\* Where a conversion of each kind can be.
Placed(t) ==
  /\ kind[t] = "none" => at[t] = "nothing" /\ promise[t] = "pending"
  /\ at[t] \in {"load", "seek", "blob", "bytes"} => kind[t] \in Pictures
  /\ at[t] = "seek" => kind[t] = "video"
  /\ at[t] \in {"script", "document", "page"} => kind[t] = "pdf"

\* Whoever is still to give the object URL back.
UrlHeld(t) ==
  /\ t \in objectUrls =>
       \/ t \in timers
       \/ kind[t] \in Media!Images /\ at[t] = "load" /\ ~Media!Settled(t)
       \/ kind[t] \in Media!Images /\ t \in unreadable
  /\ t \in timers => kind[t] = "video" /\ at[t] \in {"load", "seek"} /\ ~Media!Settled(t)

\* What was drawn is the scaled source, and only a canvas that is not empty is
\* encoded and read.
Drawing(t) ==
  /\ at[t] \in {"blob", "bytes"} => canvas[t] = Media!Scaled(source[t])
  /\ at[t] = "bytes" => canvas[t].w # 0 /\ canvas[t].h # 0
  /\ kind[t] \in Pictures /\ promise[t] = "resolved" =>
       /\ at[t] = "nothing" /\ canvas[t] = Media!Scaled(source[t])
       /\ canvas[t].w # 0 /\ canvas[t].h # 0

\* The inductive invariant of the conversions.
MediaInv ==
  MediaTyped /\ \A t \in Task : Placed(t) /\ UrlHeld(t) /\ Drawing(t)

\* A source of sides n and m with m <= n, scaled to a longest side d: the other side
\* is not longer.
LEMMA ScaleBound ==
  ASSUME NEW a \in Nat, NEW d \in Nat, NEW c \in Nat, a <= c, c # 0
  PROVE  Media!Scale(a, d, c) \in 0 .. d
<1> DEFINE x == 2 * a * d + c
           y == 2 * c
           z == x \div y
<1>1. x \in Nat /\ y \in Nat /\ y > 0
  BY SMT
<1>2. a * d <= c * d
  BY SMT
<1>3. x <= y * d + c
  <2>1. 2 * a * d = 2 * (a * d) /\ 2 * c * d = 2 * (c * d)
    BY SMT
  <2>2. a * d \in Nat /\ c * d \in Nat
    BY SMT
  <2>3. QED
    BY <1>2, <2>1, <2>2, SMT
<1>4. x < y * (d + 1)
  <2>1. y * d \in Nat /\ y * (d + 1) = y * d + y
    BY SMT
  <2>2. QED
    BY <1>1, <1>3, <2>1, SMT
<1> HIDE DEF x, y
<1>5. z \in Nat /\ y * z <= x
  BY <1>1, SMT
<1>6. z <= d
  <2>1. SUFFICES ASSUME z >= d + 1 PROVE FALSE
    BY <1>5, SMT DEF z
  <2> HIDE DEF z
  <2>2. y * z >= y * (d + 1)
    BY <1>1, <1>5, <2>1, SMT
  <2>3. y * z \in Nat /\ y * (d + 1) \in Nat
    BY <1>1, <1>5, SMT
  <2>4. QED
    BY <1>1, <1>4, <1>5, <2>2, <2>3, SMT
<1>7. QED
  BY <1>5, <1>6 DEF Media!Scale, x, y, z

\* The scaled picture fits, and is the source if that fits (compressImage,
\* generateThumbnail, captureVideoFrame).
LEMMA ScaledFits ==
  ASSUME NEW s \in Sizes
  PROVE  /\ Media!Scaled(s) \in Sizes
         /\ Media!Scaled(s).w <= MaxDimension /\ Media!Scaled(s).h <= MaxDimension
         /\ s.w <= MaxDimension /\ s.h <= MaxDimension => Media!Scaled(s) = s
<1> DEFINE D == MaxDimension
<1>1. s.w \in Nat /\ s.h \in Nat /\ D \in Nat
  BY PageAssumption DEF Sizes
<1>2. CASE s.w > s.h /\ s.w > D
  <2>1. Media!Scaled(s) = [w |-> D, h |-> Media!Scale(s.h, D, s.w)]
    BY <1>1, <1>2 DEF Media!Scaled
  <2>2. Media!Scale(s.h, D, s.w) \in 0 .. D
    BY <1>1, <1>2, ScaleBound
  <2>3. QED
    BY <1>1, <1>2, <2>1, <2>2 DEF Sizes
<1>3. CASE s.w <= s.h /\ s.h > D
  <2>1. Media!Scaled(s) = [w |-> Media!Scale(s.w, D, s.h), h |-> D]
    BY <1>1, <1>3 DEF Media!Scaled
  <2>2. Media!Scale(s.w, D, s.h) \in 0 .. D
    BY <1>1, <1>3, ScaleBound
  <2>3. QED
    BY <1>1, <1>3, <2>1, <2>2 DEF Sizes
<1>4. CASE ~(s.w > s.h /\ s.w > D) /\ ~(s.w <= s.h /\ s.h > D)
  <2>1. Media!Scaled(s) = s
    BY <1>1, <1>4 DEF Media!Scaled
  <2>2. QED
    BY <1>1, <1>4, <2>1 DEF Sizes
<1>5. QED
  BY <1>1, <1>2, <1>3, <1>4

\* A step of one conversion leaves all others in order.
LEMMA OneConversion ==
  ASSUME MediaInv, NEW t \in Task, MediaTyped', Placed(t)', UrlHeld(t)', Drawing(t)',
         \A u \in Task \ {t} :
           /\ kind'[u] = kind[u] /\ at'[u] = at[u] /\ promise'[u] = promise[u]
           /\ source'[u] = source[u] /\ canvas'[u] = canvas[u]
           /\ u \in unreadable' <=> u \in unreadable
           /\ u \in objectUrls' <=> u \in objectUrls
           /\ u \in timers' <=> u \in timers
  PROVE  MediaInv'
<1>1. ASSUME NEW u \in Task, u # t PROVE (Placed(u) /\ UrlHeld(u) /\ Drawing(u))'
  <2>1. Placed(u) /\ UrlHeld(u) /\ Drawing(u)
    BY DEF MediaInv
  <2>2. QED
    BY <1>1, <2>1 DEF Placed, UrlHeld, Drawing, Media!Settled
<1>2. QED
  BY <1>1 DEF MediaInv

\* What a step leaves alone is still in order.
LEMMA MediaKept ==
  ASSUME MediaInv,
         UNCHANGED <<kind, at, promise, unreadable, objectUrls, timers, source, canvas>>
  PROVE  MediaInv'
<1>1. MediaTyped'
  BY DEF MediaInv, MediaTyped
<1>2. ASSUME NEW t \in Task PROVE (Placed(t) /\ UrlHeld(t) /\ Drawing(t))'
  <2>1. Placed(t) /\ UrlHeld(t) /\ Drawing(t)
    BY DEF MediaInv
  <2>2. QED
    BY <2>1 DEF Placed, UrlHeld, Drawing, Media!Settled
<1>3. QED
  BY <1>1, <1>2 DEF MediaInv

\* A promise that settles stays one.
LEMMA SettleTyped ==
  ASSUME MediaTyped, NEW t \in Task, NEW outcome \in {"resolved", "rejected"},
         Media!Settle(t, outcome)
  PROVE  /\ promise' \in [Task -> {"pending", "resolved", "rejected"}]
         /\ promise'[t] # "pending"
         /\ promise'[t] = IF promise[t] = "pending" THEN outcome ELSE promise[t]
         /\ \A u \in Task \ {t} : promise'[u] = promise[u]
BY DEF MediaTyped, Media!Settle

\* No event disturbs the invariant: what gives the object URL back is always still to
\* come, and every picture drawn is scaled.
LEMMA NextMedia ==
  ASSUME MediaInv, Media!Next
  PROVE  MediaInv'
<1> USE DEF Media!picture, Media!pdfVars, Media!Images, Media!Settled, Pictures
<1>1. CASE Media!ScriptEvent
  BY <1>1, MediaKept DEF Media!ScriptEvent
<1>2. ASSUME NEW t \in Task, Media!StartImage(t) PROVE MediaInv'
  <2>1. MediaTyped /\ Placed(t) /\ UrlHeld(t) /\ Drawing(t)
    BY DEF MediaInv
  <2>2. MediaTyped'
    BY <1>2, <2>1 DEF Media!StartImage, MediaTyped
  <2>3. (Placed(t) /\ UrlHeld(t))'
    BY <1>2, <2>1 DEF Media!StartImage, MediaTyped, Placed, UrlHeld
  <2>4. Drawing(t)'
    BY <1>2, <2>1 DEF Media!StartImage, MediaTyped, Placed, UrlHeld, Drawing
  <2>5. \A u \in Task \ {t} :
           /\ kind'[u] = kind[u] /\ at'[u] = at[u] /\ promise'[u] = promise[u]
           /\ source'[u] = source[u] /\ canvas'[u] = canvas[u]
           /\ u \in unreadable' <=> u \in unreadable
           /\ u \in objectUrls' <=> u \in objectUrls
           /\ u \in timers' <=> u \in timers
    BY <1>2, <2>1 DEF Media!StartImage, MediaTyped
  <2>6. QED
    BY <2>2, <2>3, <2>4, <2>5, OneConversion
<1>3. ASSUME NEW t \in Task, Media!StartVideo(t) PROVE MediaInv'
  <2>1. MediaTyped /\ Placed(t) /\ UrlHeld(t) /\ Drawing(t)
    BY DEF MediaInv
  <2>2. MediaTyped'
    BY <1>3, <2>1 DEF Media!StartVideo, MediaTyped
  <2>3. (Placed(t) /\ UrlHeld(t))'
    BY <1>3, <2>1 DEF Media!StartVideo, MediaTyped, Placed, UrlHeld
  <2>4. Drawing(t)'
    BY <1>3, <2>1 DEF Media!StartVideo, MediaTyped, Placed, UrlHeld, Drawing
  <2>5. \A u \in Task \ {t} :
           /\ kind'[u] = kind[u] /\ at'[u] = at[u] /\ promise'[u] = promise[u]
           /\ source'[u] = source[u] /\ canvas'[u] = canvas[u]
           /\ u \in unreadable' <=> u \in unreadable
           /\ u \in objectUrls' <=> u \in objectUrls
           /\ u \in timers' <=> u \in timers
    BY <1>3, <2>1 DEF Media!StartVideo, MediaTyped
  <2>6. QED
    BY <2>2, <2>3, <2>4, <2>5, OneConversion
<1>4. ASSUME NEW t \in Task, Media!StartPdf(t) PROVE MediaInv'
  <2>1. MediaTyped /\ Placed(t) /\ UrlHeld(t) /\ Drawing(t)
    BY DEF MediaInv
  <2>2. MediaTyped'
    BY <1>4, <2>1 DEF Media!StartPdf, MediaTyped
  <2>3. (Placed(t) /\ UrlHeld(t))'
    BY <1>4, <2>1 DEF Media!StartPdf, MediaTyped, Placed, UrlHeld
  <2>4. Drawing(t)'
    BY <1>4, <2>1 DEF Media!StartPdf, MediaTyped, Placed, UrlHeld, Drawing
  <2>5. \A u \in Task \ {t} :
           /\ kind'[u] = kind[u] /\ at'[u] = at[u] /\ promise'[u] = promise[u]
           /\ source'[u] = source[u] /\ canvas'[u] = canvas[u]
           /\ u \in unreadable' <=> u \in unreadable
           /\ u \in objectUrls' <=> u \in objectUrls
           /\ u \in timers' <=> u \in timers
    BY <1>4, <2>1 DEF Media!StartPdf, MediaTyped
  <2>6. QED
    BY <2>2, <2>3, <2>4, <2>5, OneConversion
<1>5. ASSUME NEW t \in Task, Media!ImageLoaded(t) PROVE MediaInv'
  <2>1. MediaTyped /\ Placed(t) /\ UrlHeld(t) /\ Drawing(t)
    BY DEF MediaInv
  <2>2. PICK s \in Media!Size : Media!Drawn(t, s)
    BY <1>5 DEF Media!ImageLoaded
  <2>3. s \in Sizes /\ Media!Scaled(s) \in Sizes
    BY <2>2, ScaledFits, PageAssumption DEF Media!Size, Media!Side, Sizes
  <2>4. MediaTyped'
    BY <1>5, <2>1, <2>2, <2>3 DEF Media!ImageLoaded, Media!Drawn, MediaTyped
  <2>5. (Placed(t) /\ UrlHeld(t))'
    BY <1>5, <2>1, <2>2, <2>3
       DEF Media!ImageLoaded, Media!Drawn, MediaTyped, Placed, UrlHeld
  <2>6. Drawing(t)'
    BY <1>5, <2>1, <2>2, <2>3
       DEF Media!ImageLoaded, Media!Drawn, MediaTyped, Placed, UrlHeld, Drawing
  <2>7. \A u \in Task \ {t} :
           /\ kind'[u] = kind[u] /\ at'[u] = at[u] /\ promise'[u] = promise[u]
           /\ source'[u] = source[u] /\ canvas'[u] = canvas[u]
           /\ u \in unreadable' <=> u \in unreadable
           /\ u \in objectUrls' <=> u \in objectUrls
           /\ u \in timers' <=> u \in timers
    BY <1>5, <2>1, <2>2, <2>3 DEF Media!ImageLoaded, Media!Drawn, MediaTyped
  <2>8. QED
    BY <2>4, <2>5, <2>6, <2>7, OneConversion
<1>6. ASSUME NEW t \in Task, Media!LoadError(t) PROVE MediaInv'
  <2>1. MediaTyped /\ Placed(t) /\ UrlHeld(t) /\ Drawing(t)
    BY DEF MediaInv
  <2>2. MediaTyped'
    BY <1>6, <2>1, SettleTyped DEF Media!LoadError, MediaTyped
  <2>3. (Placed(t) /\ UrlHeld(t))'
    BY <1>6, <2>1, SettleTyped DEF Media!LoadError, MediaTyped, Placed, UrlHeld
  <2>4. Drawing(t)'
    BY <1>6, <2>1, SettleTyped DEF Media!LoadError, MediaTyped, Placed, UrlHeld, Drawing
  <2>5. \A u \in Task \ {t} :
           /\ kind'[u] = kind[u] /\ at'[u] = at[u] /\ promise'[u] = promise[u]
           /\ source'[u] = source[u] /\ canvas'[u] = canvas[u]
           /\ u \in unreadable' <=> u \in unreadable
           /\ u \in objectUrls' <=> u \in objectUrls
           /\ u \in timers' <=> u \in timers
    BY <1>6, <2>1, SettleTyped DEF Media!LoadError, MediaTyped
  <2>6. QED
    BY <2>2, <2>3, <2>4, <2>5, OneConversion
<1>7. ASSUME NEW t \in Task, Media!VideoLoaded(t) PROVE MediaInv'
  <2>1. MediaTyped /\ Placed(t) /\ UrlHeld(t) /\ Drawing(t)
    BY DEF MediaInv
  <2>2. MediaTyped'
    BY <1>7, <2>1 DEF Media!VideoLoaded, MediaTyped
  <2>3. (Placed(t) /\ UrlHeld(t))'
    BY <1>7, <2>1 DEF Media!VideoLoaded, MediaTyped, Placed, UrlHeld
  <2>4. Drawing(t)'
    BY <1>7, <2>1 DEF Media!VideoLoaded, MediaTyped, Placed, UrlHeld, Drawing
  <2>5. \A u \in Task \ {t} :
           /\ kind'[u] = kind[u] /\ at'[u] = at[u] /\ promise'[u] = promise[u]
           /\ source'[u] = source[u] /\ canvas'[u] = canvas[u]
           /\ u \in unreadable' <=> u \in unreadable
           /\ u \in objectUrls' <=> u \in objectUrls
           /\ u \in timers' <=> u \in timers
    BY <1>7, <2>1 DEF Media!VideoLoaded, MediaTyped
  <2>6. QED
    BY <2>2, <2>3, <2>4, <2>5, OneConversion
<1>8. ASSUME NEW t \in Task, Media!VideoSeeked(t) PROVE MediaInv'
  <2>1. MediaTyped /\ Placed(t) /\ UrlHeld(t) /\ Drawing(t)
    BY DEF MediaInv
  <2>2. PICK s \in Media!Size : Media!Drawn(t, s)
    BY <1>8 DEF Media!VideoSeeked
  <2>3. s \in Sizes /\ Media!Scaled(s) \in Sizes
    BY <2>2, ScaledFits, PageAssumption DEF Media!Size, Media!Side, Sizes
  <2>4. MediaTyped'
    BY <1>8, <2>1, <2>2, <2>3 DEF Media!VideoSeeked, Media!Drawn, MediaTyped
  <2>5. (Placed(t) /\ UrlHeld(t))'
    BY <1>8, <2>1, <2>2, <2>3
       DEF Media!VideoSeeked, Media!Drawn, MediaTyped, Placed, UrlHeld
  <2>6. Drawing(t)'
    BY <1>8, <2>1, <2>2, <2>3
       DEF Media!VideoSeeked, Media!Drawn, MediaTyped, Placed, UrlHeld, Drawing
  <2>7. \A u \in Task \ {t} :
           /\ kind'[u] = kind[u] /\ at'[u] = at[u] /\ promise'[u] = promise[u]
           /\ source'[u] = source[u] /\ canvas'[u] = canvas[u]
           /\ u \in unreadable' <=> u \in unreadable
           /\ u \in objectUrls' <=> u \in objectUrls
           /\ u \in timers' <=> u \in timers
    BY <1>8, <2>1, <2>2, <2>3 DEF Media!VideoSeeked, Media!Drawn, MediaTyped
  <2>8. QED
    BY <2>4, <2>5, <2>6, <2>7, OneConversion
<1>9. ASSUME NEW t \in Task, Media!TimedOut(t) PROVE MediaInv'
  <2>1. MediaTyped /\ Placed(t) /\ UrlHeld(t) /\ Drawing(t)
    BY DEF MediaInv
  <2>2. MediaTyped'
    BY <1>9, <2>1, SettleTyped DEF Media!TimedOut, MediaTyped
  <2>3. (Placed(t) /\ UrlHeld(t))'
    BY <1>9, <2>1, SettleTyped DEF Media!TimedOut, MediaTyped, Placed, UrlHeld
  <2>4. Drawing(t)'
    BY <1>9, <2>1, SettleTyped DEF Media!TimedOut, MediaTyped, Placed, UrlHeld, Drawing
  <2>5. \A u \in Task \ {t} :
           /\ kind'[u] = kind[u] /\ at'[u] = at[u] /\ promise'[u] = promise[u]
           /\ source'[u] = source[u] /\ canvas'[u] = canvas[u]
           /\ u \in unreadable' <=> u \in unreadable
           /\ u \in objectUrls' <=> u \in objectUrls
           /\ u \in timers' <=> u \in timers
    BY <1>9, <2>1, SettleTyped DEF Media!TimedOut, MediaTyped
  <2>6. QED
    BY <2>2, <2>3, <2>4, <2>5, OneConversion
<1>10. ASSUME NEW t \in Task, Media!Encoded(t) PROVE MediaInv'
  <2>1. MediaTyped /\ Placed(t) /\ UrlHeld(t) /\ Drawing(t)
    BY DEF MediaInv
  <2>2. MediaTyped'
    BY <1>10, <2>1, SettleTyped DEF Media!Encoded, MediaTyped
  <2>3. (Placed(t) /\ UrlHeld(t))'
    BY <1>10, <2>1, SettleTyped DEF Media!Encoded, MediaTyped, Placed, UrlHeld
  <2>4. Drawing(t)'
    BY <1>10, <2>1, SettleTyped DEF Media!Encoded, MediaTyped, Placed, UrlHeld, Drawing
  <2>5. \A u \in Task \ {t} :
           /\ kind'[u] = kind[u] /\ at'[u] = at[u] /\ promise'[u] = promise[u]
           /\ source'[u] = source[u] /\ canvas'[u] = canvas[u]
           /\ u \in unreadable' <=> u \in unreadable
           /\ u \in objectUrls' <=> u \in objectUrls
           /\ u \in timers' <=> u \in timers
    BY <1>10, <2>1, SettleTyped DEF Media!Encoded, MediaTyped
  <2>6. QED
    BY <2>2, <2>3, <2>4, <2>5, OneConversion
<1>11. ASSUME NEW t \in Task, Media!BytesRead(t) PROVE MediaInv'
  <2>1. MediaTyped /\ Placed(t) /\ UrlHeld(t) /\ Drawing(t)
    BY DEF MediaInv
  <2>2. MediaTyped'
    BY <1>11, <2>1, SettleTyped DEF Media!BytesRead, MediaTyped
  <2>3. (Placed(t) /\ UrlHeld(t))'
    BY <1>11, <2>1, SettleTyped DEF Media!BytesRead, MediaTyped, Placed, UrlHeld
  <2>4. Drawing(t)'
    BY <1>11, <2>1, SettleTyped DEF Media!BytesRead, MediaTyped, Placed, UrlHeld, Drawing
  <2>5. \A u \in Task \ {t} :
           /\ kind'[u] = kind[u] /\ at'[u] = at[u] /\ promise'[u] = promise[u]
           /\ source'[u] = source[u] /\ canvas'[u] = canvas[u]
           /\ u \in unreadable' <=> u \in unreadable
           /\ u \in objectUrls' <=> u \in objectUrls
           /\ u \in timers' <=> u \in timers
    BY <1>11, <2>1, SettleTyped DEF Media!BytesRead, MediaTyped
  <2>6. QED
    BY <2>2, <2>3, <2>4, <2>5, OneConversion
<1>12. ASSUME NEW t \in Task, Media!ScriptAwaited(t) PROVE MediaInv'
  <2>1. MediaTyped /\ Placed(t) /\ UrlHeld(t) /\ Drawing(t)
    BY DEF MediaInv
  <2>2. MediaTyped'
    BY <1>12, <2>1, SettleTyped DEF Media!ScriptAwaited, MediaTyped
  <2>3. (Placed(t) /\ UrlHeld(t))'
    BY <1>12, <2>1, SettleTyped DEF Media!ScriptAwaited, MediaTyped, Placed, UrlHeld
  <2>4. Drawing(t)'
    BY <1>12, <2>1, SettleTyped
       DEF Media!ScriptAwaited, MediaTyped, Placed, UrlHeld, Drawing
  <2>5. \A u \in Task \ {t} :
           /\ kind'[u] = kind[u] /\ at'[u] = at[u] /\ promise'[u] = promise[u]
           /\ source'[u] = source[u] /\ canvas'[u] = canvas[u]
           /\ u \in unreadable' <=> u \in unreadable
           /\ u \in objectUrls' <=> u \in objectUrls
           /\ u \in timers' <=> u \in timers
    BY <1>12, <2>1, SettleTyped DEF Media!ScriptAwaited, MediaTyped
  <2>6. QED
    BY <2>2, <2>3, <2>4, <2>5, OneConversion
<1>13. ASSUME NEW t \in Task, Media!DocumentOpened(t) PROVE MediaInv'
  <2>1. MediaTyped /\ Placed(t) /\ UrlHeld(t) /\ Drawing(t)
    BY DEF MediaInv
  <2>2. MediaTyped'
    BY <1>13, <2>1, SettleTyped DEF Media!DocumentOpened, MediaTyped
  <2>3. (Placed(t) /\ UrlHeld(t))'
    BY <1>13, <2>1, SettleTyped DEF Media!DocumentOpened, MediaTyped, Placed, UrlHeld
  <2>4. Drawing(t)'
    BY <1>13, <2>1, SettleTyped
       DEF Media!DocumentOpened, MediaTyped, Placed, UrlHeld, Drawing
  <2>5. \A u \in Task \ {t} :
           /\ kind'[u] = kind[u] /\ at'[u] = at[u] /\ promise'[u] = promise[u]
           /\ source'[u] = source[u] /\ canvas'[u] = canvas[u]
           /\ u \in unreadable' <=> u \in unreadable
           /\ u \in objectUrls' <=> u \in objectUrls
           /\ u \in timers' <=> u \in timers
    BY <1>13, <2>1, SettleTyped DEF Media!DocumentOpened, MediaTyped
  <2>6. QED
    BY <2>2, <2>3, <2>4, <2>5, OneConversion
<1>14. ASSUME NEW t \in Task, Media!PageRendered(t) PROVE MediaInv'
  <2>1. MediaTyped /\ Placed(t) /\ UrlHeld(t) /\ Drawing(t)
    BY DEF MediaInv
  <2>2. MediaTyped'
    BY <1>14, <2>1, SettleTyped DEF Media!PageRendered, MediaTyped
  <2>3. (Placed(t) /\ UrlHeld(t))'
    BY <1>14, <2>1, SettleTyped DEF Media!PageRendered, MediaTyped, Placed, UrlHeld
  <2>4. Drawing(t)'
    BY <1>14, <2>1, SettleTyped DEF Media!PageRendered, MediaTyped, Placed, UrlHeld, Drawing
  <2>5. \A u \in Task \ {t} :
           /\ kind'[u] = kind[u] /\ at'[u] = at[u] /\ promise'[u] = promise[u]
           /\ source'[u] = source[u] /\ canvas'[u] = canvas[u]
           /\ u \in unreadable' <=> u \in unreadable
           /\ u \in objectUrls' <=> u \in objectUrls
           /\ u \in timers' <=> u \in timers
    BY <1>14, <2>1, SettleTyped DEF Media!PageRendered, MediaTyped
  <2>6. QED
    BY <2>2, <2>3, <2>4, <2>5, OneConversion
<1>15. QED
  BY <1>1, <1>2, <1>3, <1>4, <1>5, <1>6, <1>7, <1>8, <1>9, <1>10, <1>11, <1>12, <1>13, <1>14
     DEF Media!Next, Media!Start, Media!Event

\* The page is loaded with no conversion.
LEMMA InitMedia == Media!Init => MediaInv
BY
   DEF Media!Init, Media!NoSize, MediaInv, MediaTyped, Sizes, Placed, UrlHeld, Drawing, Pictures,
       Media!Images, Media!Settled

\* The invariant holds of the page, whatever script it runs.
LEMMA MediaAlways == PageSpec => []MediaInv
<1>1. PageInit => MediaInv
  BY InitMedia DEF PageInit
<1>2. MediaInv /\ [PageNext]_pageVars => MediaInv'
  BY NextMedia, MediaKept DEF PageNext, pageVars, mediaVars
<1>3. QED
  BY <1>1, <1>2, PTL DEF PageSpec

\* A settled conversion has released its object URL, however late the events of a
\* video come after its timeout, unless its image could not be decoded (onload,
\* onseeked, onerror, the timeout).
THEOREM UrlsGivenBack == PageSpec => []UrlsReleased
<1>1. MediaInv => UrlsReleased
  BY DEF MediaInv, UrlHeld, UrlsReleased, Media!UrlsReleased, Media!Settled
<1>2. QED
  BY <1>1, MediaAlways, PTL

\* A picture that is handed out is not empty, has no side longer than asked for, and is
\* the source itself if that fits, for every size of the source (the rounding of thin
\* pictures, and toBlob of an empty canvas).
THEOREM PicturesFit == PageSpec => []FitsSize
<1>1. ASSUME MediaInv PROVE FitsSize
  <2>1. SUFFICES ASSUME NEW t \in Task, kind[t] \in Pictures, promise[t] = "resolved"
                 PROVE  /\ canvas[t].w \in 1 .. MaxDimension /\ canvas[t].h \in 1 .. MaxDimension
                        /\ source[t].w <= MaxDimension /\ source[t].h <= MaxDimension
                             => canvas[t] = source[t]
    BY DEF FitsSize, Media!FitsSize, Pictures
  <2>2. /\ canvas[t] = Media!Scaled(source[t]) /\ canvas[t].w # 0 /\ canvas[t].h # 0
        /\ source[t] \in Sizes
    BY <1>1, <2>1 DEF MediaInv, MediaTyped, Drawing
  <2>3. /\ canvas[t] \in Sizes
        /\ canvas[t].w <= MaxDimension /\ canvas[t].h <= MaxDimension
        /\ source[t].w <= MaxDimension /\ source[t].h <= MaxDimension => canvas[t] = source[t]
    BY <2>2, ScaledFits
  <2>4. QED
    BY <2>2, <2>3, PageAssumption DEF Sizes
<1>2. QED
  BY <1>1, MediaAlways, PTL

-----------------------------------------------------------------------------
(* The service worker.                                                     *)

Copies == [Asset -> Nat]
Caches == [name : Nat, has : Copies]
Waiting == [at : {"match", "fetch", "served"}, by : Nat, url : Asset, got : Nat]

WorkerTyped ==
  /\ deployed \in Nat \ {0}
  /\ worker \in [Worker!Version -> {"new", "installing", "activating", "active", "redundant"}]
  /\ caches \in Seq(Caches)
  /\ request \in [Fetches -> {Worker!Idle} \cup Waiting]
  /\ puts \subseteq [by : Nat, url : Asset, got : Nat \ {0}]

\* Only a version that is deployed has a worker, requests and responses, and what it
\* stores is no older than itself.
NoneOlder ==
  /\ \A v \in Worker!Version : worker[v] # "new" => v <= deployed
  /\ \A r \in Fetches : request[r] \in Waiting => request[r].by <= deployed
  /\ \A p \in puts : p.by <= p.got
  /\ \A i \in DOMAIN caches, a \in Asset :
       caches[i].has[a] # 0 => caches[i].has[a] >= caches[i].name

\* One worker is being updated at a time, one is active, and none while another is
\* activating.
OneWorker ==
  \A u, v \in Worker!Version : u # v =>
    /\ worker[u] \in {"installing", "activating"} => worker[v] \notin {"installing", "activating"}
    /\ worker[u] = "active" => worker[v] \notin {"active", "activating"}

\* A cache is found by its name.
OneCache ==
  \A i, j \in DOMAIN caches : caches[i].name = caches[j].name => i = j

\* The cache of a version that holds all that is pre-cached.
Full(c, v) == c.name = v /\ \A a \in Static : c.has[a] # 0

\* The worker that activates has its cache, and the active worker's is the first.
CacheReady ==
  \A v \in Worker!Version :
    /\ worker[v] = "activating" => \E i \in DOMAIN caches : Full(caches[i], v)
    /\ worker[v] = "active" => caches # << >> /\ Full(caches[1], v)

\* The inductive invariant of the service worker.
WorkerInv == WorkerTyped /\ NoneOlder /\ OneWorker /\ OneCache /\ CacheReady

\* What caches holds after a cache is opened and the URLs are put: the old caches where
\* they were, with the copies put, and at most one more behind them.
LEMMA OpenedEffect ==
  ASSUME WorkerTyped, NEW v \in Nat, NEW urlsPut, NEW copy \in Nat
  PROVE  LET q == Worker!Opened(v, urlsPut, copy)
         IN  /\ q \in Seq(Caches)
             /\ Len(q) = IF Worker!Named(v) THEN Len(caches) ELSE Len(caches) + 1
             /\ \A i \in DOMAIN caches :
                  /\ q[i].name = caches[i].name
                  /\ \A a \in Asset :
                       q[i].has[a] = IF caches[i].name = v /\ a \in urlsPut THEN copy
                                     ELSE caches[i].has[a]
             /\ ~Worker!Named(v) =>
                  /\ q[Len(caches) + 1].name = v
                  /\ \A a \in Asset :
                       q[Len(caches) + 1].has[a] = IF a \in urlsPut THEN copy ELSE 0
<1> DEFINE new == [name |-> v, has |-> Worker!Absent]
           all == IF Worker!Named(v) THEN caches ELSE Append(caches, new)
           q   == Worker!Opened(v, urlsPut, copy)
<1>1. new \in Caches /\ new.name = v /\ \A a \in Asset : new.has[a] = 0
  BY DEF Caches, Copies, Worker!Absent
<1> HIDE DEF new
<1>2. /\ all \in Seq(Caches)
      /\ Len(all) = IF Worker!Named(v) THEN Len(caches) ELSE Len(caches) + 1
      /\ \A i \in DOMAIN caches : all[i] = caches[i]
      /\ ~Worker!Named(v) => all[Len(caches) + 1] = new
  BY <1>1 DEF WorkerTyped
<1>3. q = [i \in DOMAIN all |-> IF all[i].name # v THEN all[i]
            ELSE [all[i] EXCEPT !.has = [a \in Asset |-> IF a \in urlsPut THEN copy ELSE @[a]]]]
  BY DEF Worker!Opened, new
<1> HIDE DEF all, q
<1>4. ASSUME NEW i \in DOMAIN all
      PROVE  /\ q[i] \in Caches /\ q[i].name = all[i].name
             /\ \A a \in Asset :
                  q[i].has[a] = IF all[i].name = v /\ a \in urlsPut THEN copy ELSE all[i].has[a]
  <2>1. all[i] \in Caches
    BY <1>2, <1>4
  <2>2. CASE all[i].name # v
    BY <1>3, <2>1, <2>2
  <2>3. CASE all[i].name = v
    <3>1. q[i] = [all[i] EXCEPT !.has =
                    [a \in Asset |-> IF a \in urlsPut THEN copy ELSE all[i].has[a]]]
      BY <1>3, <2>3
    <3>2. QED
      BY <2>1, <2>3, <3>1 DEF Caches, Copies
  <2>4. QED
    BY <2>2, <2>3
<1>5. DOMAIN q = 1 .. Len(all) /\ q \in [1 .. Len(all) -> Caches] /\ Len(all) \in Nat
  BY <1>2, <1>3, <1>4
<1>6. q \in Seq(Caches) /\ Len(q) = Len(all)
  BY <1>5
<1>7. \A i \in DOMAIN caches : i \in DOMAIN all
  BY <1>2 DEF WorkerTyped
<1>8. ~Worker!Named(v) => Len(caches) + 1 \in DOMAIN all
  BY <1>2 DEF WorkerTyped
<1>9. /\ q \in Seq(Caches)
      /\ Len(q) = IF Worker!Named(v) THEN Len(caches) ELSE Len(caches) + 1
      /\ \A i \in DOMAIN caches :
           /\ q[i].name = caches[i].name
           /\ \A a \in Asset :
                q[i].has[a] = IF caches[i].name = v /\ a \in urlsPut THEN copy
                              ELSE caches[i].has[a]
      /\ ~Worker!Named(v) =>
           /\ q[Len(caches) + 1].name = v
           /\ \A a \in Asset : q[Len(caches) + 1].has[a] = IF a \in urlsPut THEN copy ELSE 0
  BY <1>1, <1>2, <1>4, <1>6, <1>7, <1>8
<1>10. QED
  BY <1>9 DEF q

\* What is true of the caches: types, names and ages.
CachesInv ==
  /\ caches \in Seq(Caches) /\ OneCache
  /\ \A i \in DOMAIN caches, a \in Asset :
       caches[i].has[a] # 0 => caches[i].has[a] >= caches[i].name

\* Opening a cache and putting copies that are no older than its version keeps the
\* caches in order, keeps the full ones full and where they are, and fills the one put to
\* if all that is pre-cached is put.
LEMMA OpenedKeeps ==
  ASSUME WorkerTyped, CachesInv, NEW v \in Nat, NEW urlsPut, NEW copy \in Nat,
         urlsPut # {} => copy # 0 /\ copy >= v, caches' = Worker!Opened(v, urlsPut, copy)
  PROVE  /\ CachesInv'
         /\ \A i \in DOMAIN caches, u \in Nat :
              Full(caches[i], u) => i \in DOMAIN caches' /\ Full(caches'[i], u)
         /\ Static \subseteq urlsPut => \E i \in DOMAIN caches' : Full(caches'[i], v)
<1> DEFINE q == caches'
<1>1. /\ q \in Seq(Caches)
      /\ Len(q) = IF Worker!Named(v) THEN Len(caches) ELSE Len(caches) + 1
      /\ \A i \in DOMAIN caches :
           /\ q[i].name = caches[i].name
           /\ \A a \in Asset :
                q[i].has[a] = IF caches[i].name = v /\ a \in urlsPut THEN copy
                              ELSE caches[i].has[a]
      /\ ~Worker!Named(v) =>
           /\ q[Len(caches) + 1].name = v
           /\ \A a \in Asset : q[Len(caches) + 1].has[a] = IF a \in urlsPut THEN copy ELSE 0
  BY OpenedEffect
<1> HIDE DEF q
<1>2. /\ Len(caches) \in Nat /\ DOMAIN caches = 1 .. Len(caches)
      /\ Len(q) \in Nat /\ DOMAIN q = 1 .. Len(q)
  BY <1>1 DEF WorkerTyped
<1>3. ASSUME NEW i \in DOMAIN q
      PROVE  i \in DOMAIN caches \/ (i = Len(caches) + 1 /\ ~Worker!Named(v))
  BY <1>1, <1>2
<1>4. \A i \in DOMAIN caches : i \in DOMAIN q
  BY <1>1, <1>2
<1>5. \A i, j \in DOMAIN q : q[i].name = q[j].name => i = j
  BY <1>1, <1>3 DEF CachesInv, OneCache, Worker!Named
<1>6. \A i \in DOMAIN q, a \in Asset : q[i].has[a] # 0 => q[i].has[a] >= q[i].name
  <2>1. SUFFICES ASSUME NEW i \in DOMAIN q, NEW a \in Asset, q[i].has[a] # 0
                 PROVE  q[i].has[a] >= q[i].name
    OBVIOUS
  <2>2. CASE i \in DOMAIN caches
    BY <1>1, <2>1, <2>2 DEF CachesInv
  <2>3. CASE i = Len(caches) + 1 /\ ~Worker!Named(v)
    BY <1>1, <2>1, <2>3
  <2>4. QED
    BY <1>3, <2>2, <2>3
<1>7. ASSUME NEW i \in DOMAIN caches, NEW u \in Nat, Full(caches[i], u)
      PROVE  i \in DOMAIN q /\ Full(q[i], u)
  <2>1. \A a \in Static : a \in Asset
    BY PageAssumption
  <2>2. QED
    BY <1>1, <1>4, <1>7, <2>1 DEF Full
<1>8. ASSUME Static \subseteq urlsPut PROVE \E i \in DOMAIN q : Full(q[i], v)
  <2>1. \A a \in Static : a \in Asset /\ a \in urlsPut
    BY <1>8, PageAssumption
  <2>2. urlsPut # {}
    BY <2>1, PageAssumption
  <2>3. CASE Worker!Named(v)
    <3>1. PICK i \in DOMAIN caches : caches[i].name = v
      BY <2>3 DEF Worker!Named
    <3>2. Full(q[i], v)
      BY <1>1, <2>1, <2>2, <3>1 DEF Full
    <3>3. QED
      BY <1>4, <3>2
  <2>4. CASE ~Worker!Named(v)
    <3>1. Len(caches) + 1 \in DOMAIN q
      BY <1>1, <1>2, <2>4
    <3>2. Full(q[Len(caches) + 1], v)
      BY <1>1, <2>1, <2>2, <2>4 DEF Full
    <3>3. QED
      BY <3>1, <3>2
  <2>5. QED
    BY <2>3, <2>4
<1>9. CachesInv'
  BY <1>1, <1>5, <1>6 DEF CachesInv, OneCache, q
<1>10. QED
  BY <1>7, <1>8, <1>9 DEF q

\* What is kept of the caches when version v activates is its own, and that one is first.
LEMMA KeptFirst ==
  ASSUME WorkerTyped, CachesInv, NEW v \in Worker!Version, caches' = Worker!Kept(v),
         \E i \in DOMAIN caches : Full(caches[i], v)
  PROVE  CachesInv' /\ caches' # << >> /\ Full(caches'[1], v)
<1> DEFINE i == CHOOSE i \in DOMAIN caches : caches[i].name = v
<1>1. Worker!Named(v)
  BY DEF Worker!Named, Full
<1>2. i \in DOMAIN caches /\ caches[i].name = v
  BY <1>1 DEF Worker!Named
<1>3. caches' = <<caches[i]>>
  BY <1>1 DEF Worker!Kept
<1> HIDE DEF i
<1>4. Full(caches[i], v)
  BY <1>2 DEF CachesInv, OneCache, Full
<1>5. caches[i] \in Caches
  BY <1>2 DEF WorkerTyped
<1>6. caches' \in Seq(Caches) /\ DOMAIN caches' = {1} /\ caches'[1] = caches[i]
  BY <1>3, <1>5
<1>7. CachesInv'
  BY <1>2, <1>6 DEF CachesInv, OneCache
<1>8. caches' # << >>
  BY <1>3
<1>9. Full(caches'[1], v)
  BY <1>4, <1>6 DEF Full
<1>10. QED
  BY <1>7, <1>8, <1>9

\* A step that changes neither the caches nor the workers, and after which no request or
\* response is older than its worker.
LEMMA FetchingKeeps ==
  ASSUME WorkerInv, UNCHANGED <<worker, caches>>,
         deployed' \in Nat \ {0}, deployed' >= deployed,
         request' \in [Fetches -> {Worker!Idle} \cup Waiting],
         puts' \subseteq [by : Nat, url : Asset, got : Nat \ {0}],
         \A r \in Fetches : request'[r] \in Waiting => request'[r].by <= deployed',
         \A p \in puts' : p.by <= p.got
  PROVE  WorkerInv'
<1>1. WorkerTyped'
  BY DEF WorkerInv, WorkerTyped
<1>2. NoneOlder'
  <2>1. \A v \in Worker!Version : worker'[v] # "new" => v <= deployed'
    BY PageAssumption DEF WorkerInv, WorkerTyped, NoneOlder, Worker!Version
  <2>2. QED
    BY <2>1 DEF WorkerInv, NoneOlder
<1>3. QED
  BY <1>1, <1>2 DEF WorkerInv, OneWorker, OneCache, CacheReady

\* Some set of indices that is not empty has a first.
LEMMA FirstOf ==
  ASSUME NEW S, S \subseteq Nat, S # {}
  PROVE  \E i \in S : \A j \in S : i <= j
<1>1. PICK i \in S : \A j \in S : <<j, i>> \notin OpToRel(<, Nat)
  BY NatLessThanWellFounded, WFMin
<1>2. \A j \in S : ~(j < i)
  BY <1>1 DEF OpToRel
<1>3. QED
  BY <1>2

\* What a match finds is a copy.
LEMMA MatchedTyped ==
  ASSUME WorkerTyped, NEW a \in Asset
  PROVE  Worker!Matched(a) \in Nat
<1> DEFINE with == {i \in DOMAIN caches : caches[i].has[a] # 0}
<1>1. CASE with = {}
  BY <1>1 DEF Worker!Matched
<1>2. CASE with # {}
  <2>1. with \subseteq Nat
    BY DEF WorkerTyped
  <2>2. \E i \in with : \A j \in with : i <= j
    BY <1>2, <2>1, FirstOf
  <2>3. PICK i \in with : Worker!Matched(a) = caches[i].has[a]
    BY <1>2, <2>2 DEF Worker!Matched
  <2>4. caches[i] \in Caches
    BY <2>3 DEF WorkerTyped
  <2>5. QED
    BY <2>3, <2>4 DEF Caches, Copies
<1>3. QED
  BY <1>1, <1>2

\* The caches after a put, an install or an addAll still serve the workers.
LEMMA ReadyKept ==
  ASSUME WorkerInv, CachesInv', \A u \in Worker!Version : u \in Nat,
         \A i \in DOMAIN caches, u \in Nat :
           Full(caches[i], u) => i \in DOMAIN caches' /\ Full(caches'[i], u),
         \A u \in Worker!Version :
           /\ worker'[u] = "active" => worker[u] = "active"
           /\ worker'[u] = "activating" =>
                worker[u] = "activating" \/ \E i \in DOMAIN caches' : Full(caches'[i], u)
  PROVE  CacheReady'
<1>1. SUFFICES ASSUME NEW u \in Worker!Version
               PROVE  /\ worker'[u] = "activating" => \E i \in DOMAIN caches' : Full(caches'[i], u)
                      /\ worker'[u] = "active" => caches' # << >> /\ Full(caches'[1], u)
  BY DEF CacheReady, Full
<1>2. ASSUME worker'[u] = "activating" PROVE \E i \in DOMAIN caches' : Full(caches'[i], u)
  <2>1. CASE worker[u] = "activating"
    BY <2>1 DEF WorkerInv, CacheReady
  <2>2. QED
    BY <1>2, <2>1
<1>3. ASSUME worker'[u] = "active" PROVE caches' # << >> /\ Full(caches'[1], u)
  <2>1. caches # << >> /\ Full(caches[1], u)
    BY <1>3 DEF WorkerInv, CacheReady
  <2>2. 1 \in DOMAIN caches
    BY <2>1 DEF WorkerInv, WorkerTyped
  <2>3. 1 \in DOMAIN caches' /\ Full(caches'[1], u)
    BY <2>1, <2>2
  <2>4. caches' # << >>
    BY <2>3 DEF CachesInv
  <2>5. QED
    BY <2>3, <2>4
<1>4. QED
  BY <1>2, <1>3

\* No step of a worker, a request or a deployment disturbs the invariant.
LEMMA NextWorker ==
  ASSUME WorkerInv, Worker!Next
  PROVE  WorkerInv'
<1>1. /\ WorkerTyped /\ NoneOlder /\ OneWorker /\ OneCache /\ CacheReady /\ CachesInv
      /\ \A u \in Worker!Version : u \in Nat
  BY PageAssumption DEF WorkerInv, CachesInv, WorkerTyped, NoneOlder, Worker!Version
<1>2. CASE Worker!Deploy
  <2>1. deployed' \in Nat \ {0} /\ deployed' >= deployed
    BY <1>1, <1>2 DEF Worker!Deploy, WorkerTyped
  <2>2. \A r \in Fetches : request[r] \in Waiting => request[r].by <= deployed'
    BY <1>1, <2>1 DEF WorkerTyped, NoneOlder, Waiting
  <2>3. QED
    BY <1>1, <1>2, <2>1, <2>2, FetchingKeeps DEF Worker!Deploy, WorkerTyped, NoneOlder
<1>3. ASSUME NEW v \in Worker!Version, Worker!Install(v) PROVE WorkerInv'
  <2>1. /\ v = deployed /\ worker[v] = "new"
        /\ \A u \in Worker!Version : worker[u] \notin {"installing", "activating"}
        /\ worker' = [worker EXCEPT ![v] = "installing"]
        /\ caches' = Worker!Opened(v, {}, 0)
        /\ deployed' = deployed /\ request' = request /\ puts' = puts
    BY <1>3 DEF Worker!Install
  <2>2. /\ CachesInv'
        /\ \A i \in DOMAIN caches, u \in Nat :
             Full(caches[i], u) => i \in DOMAIN caches' /\ Full(caches'[i], u)
    BY <1>1, <2>1, OpenedKeeps
  <2>3. \A u \in Worker!Version : worker'[u] = IF u = v THEN "installing" ELSE worker[u]
    BY <1>1, <2>1 DEF WorkerTyped
  <2>4. CacheReady'
    BY <1>1, <2>2, <2>3, ReadyKept
  <2>5. WorkerTyped' /\ NoneOlder' /\ OneCache'
    BY <1>1, <2>1, <2>2, <2>3 DEF WorkerTyped, NoneOlder, CachesInv
  <2>6. OneWorker'
    BY <1>1, <2>1, <2>3 DEF OneWorker
  <2>7. QED
    BY <2>4, <2>5, <2>6 DEF WorkerInv
<1>4. ASSUME NEW v \in Worker!Version, Worker!AddAll(v) PROVE WorkerInv'
  <2>1. /\ worker[v] = "installing" /\ caches' = Worker!Opened(v, Static, deployed)
        /\ worker' = [u \in Worker!Version |-> CASE u = v               -> "activating"
                                                 [] worker[u] = "active" -> "redundant"
                                                 [] OTHER                -> worker[u]]
        /\ deployed' = deployed /\ request' = request /\ puts' = puts
    BY <1>4 DEF Worker!AddAll
  <2>2. deployed \in Nat /\ deployed # 0 /\ deployed >= v
    BY <1>1, <2>1 DEF WorkerTyped, NoneOlder
  <2>3. /\ CachesInv'
        /\ \A i \in DOMAIN caches, u \in Nat :
             Full(caches[i], u) => i \in DOMAIN caches' /\ Full(caches'[i], u)
        /\ \E i \in DOMAIN caches' : Full(caches'[i], v)
    BY <1>1, <2>1, <2>2, OpenedKeeps
  <2>4. /\ worker[v] # "active" /\ worker'[v] = "activating"
        /\ \A u \in Worker!Version \ {v} :
             worker'[u] = IF worker[u] = "active" THEN "redundant" ELSE worker[u]
    BY <2>1
  <2>5. CacheReady'
    BY <1>1, <2>3, <2>4, ReadyKept
  <2>6. worker' \in [Worker!Version ->
                       {"new", "installing", "activating", "active", "redundant"}]
    BY <1>1, <2>1 DEF WorkerTyped
  <2>7. WorkerTyped' /\ NoneOlder' /\ OneCache'
    BY <1>1, <2>1, <2>3, <2>4, <2>6 DEF WorkerTyped, NoneOlder, CachesInv
  <2>8. OneWorker'
    BY <1>1, <2>1, <2>4 DEF OneWorker
  <2>9. QED
    BY <2>5, <2>7, <2>8 DEF WorkerInv
<1>5. ASSUME NEW v \in Worker!Version, Worker!InstallFails(v) PROVE WorkerInv'
  <2>1. /\ worker[v] = "installing" /\ worker' = [worker EXCEPT ![v] = "new"]
        /\ UNCHANGED <<deployed, caches, request, puts>>
    BY <1>5 DEF Worker!InstallFails
  <2>2. \A u \in Worker!Version : worker'[u] = IF u = v THEN "new" ELSE worker[u]
    BY <1>1, <2>1 DEF WorkerTyped
  <2>3. QED
    BY <1>1, <2>1, <2>2
       DEF WorkerInv, WorkerTyped, NoneOlder, OneWorker, OneCache, CacheReady
<1>6. ASSUME NEW v \in Worker!Version, Worker!Activate(v) PROVE WorkerInv'
  <2>1. /\ worker[v] = "activating" /\ worker' = [worker EXCEPT ![v] = "active"]
        /\ caches' = Worker!Kept(v)
        /\ deployed' = deployed /\ request' = request /\ puts' = puts
    BY <1>6 DEF Worker!Activate
  <2>2. CachesInv' /\ caches' # << >> /\ Full(caches'[1], v)
    BY <1>1, <2>1, KeptFirst DEF CacheReady
  <2>3. /\ \A u \in Worker!Version : worker'[u] = IF u = v THEN "active" ELSE worker[u]
        /\ \A u \in Worker!Version \ {v} :
             worker[u] \notin {"installing", "activating", "active"}
    BY <1>1, <2>1 DEF WorkerTyped, OneWorker
  <2>4. CacheReady'
    BY <2>2, <2>3 DEF CacheReady
  <2>5. WorkerTyped' /\ NoneOlder' /\ OneCache'
    BY <1>1, <2>1, <2>2, <2>3 DEF WorkerTyped, NoneOlder, CachesInv
  <2>6. OneWorker'
    BY <2>3 DEF OneWorker
  <2>7. QED
    BY <2>4, <2>5, <2>6 DEF WorkerInv
<1>7. ASSUME NEW r \in Fetches, NEW v \in Worker!Version, NEW a \in Asset, Worker!Fetch(r, v, a)
      PROVE  WorkerInv'
  <2>1. /\ request' = [request EXCEPT ![r] = [at |-> "match", by |-> v, url |-> a, got |-> 0]]
        /\ UNCHANGED <<deployed, worker, caches, puts>> /\ v <= deployed
    BY <1>1, <1>7 DEF Worker!Fetch, NoneOlder
  <2>2. request' \in [Fetches -> {Worker!Idle} \cup Waiting]
    BY <1>1, <2>1 DEF WorkerTyped, Waiting
  <2>3. \A s \in Fetches : request'[s] \in Waiting => request'[s].by <= deployed
    BY <1>1, <2>1 DEF WorkerTyped, NoneOlder
  <2>4. QED
    BY <1>1, <2>1, <2>2, <2>3, FetchingKeeps DEF WorkerTyped, NoneOlder
<1>8. ASSUME NEW r \in Fetches,
             Worker!Match(r) \/ Worker!Respond(r) \/ Worker!FetchFails(r) \/ Worker!Done(r)
      PROVE  WorkerInv'
  <2>1. UNCHANGED <<deployed, worker, caches>>
    BY <1>8 DEF Worker!Match, Worker!Respond, Worker!FetchFails, Worker!Done
  <2>2. Worker!Idle \notin Waiting /\ Worker!Idle.at = "idle"
    BY DEF Worker!Idle, Waiting
  <2>3. CASE Worker!Done(r)
    <3>1. request' = [request EXCEPT ![r] = Worker!Idle] /\ puts' = puts
      BY <2>3 DEF Worker!Done
    <3>2. QED
      BY <1>1, <2>1, <2>2, <3>1, FetchingKeeps DEF WorkerTyped, NoneOlder
  <2>4. CASE Worker!Match(r) \/ Worker!Respond(r) \/ Worker!FetchFails(r)
    <3>1. request[r].at \in {"match", "fetch"}
      BY <2>4 DEF Worker!Match, Worker!Respond, Worker!FetchFails
    <3>2. request[r] \in Waiting
      BY <1>1, <2>2, <3>1 DEF WorkerTyped
    <3>3. /\ Worker!Matched(request[r].url) \in Nat /\ Worker!Matched(Offline) \in Nat
          /\ Offline \in Asset
      BY <1>1, <3>2, MatchedTyped, PageAssumption DEF Waiting
    <3>4. \/ request' = [request EXCEPT ![r] = Worker!Idle]
          \/ \E new \in Waiting :
               request' = [request EXCEPT ![r] = new] /\ new.by = request[r].by
      <4>1. CASE Worker!Match(r)
        <5> DEFINE copy == Worker!Matched(request[r].url)
                   new  == [request[r] EXCEPT !.at = IF copy = 0 THEN "fetch" ELSE "served",
                                              !.got = copy]
        <5>1. request' = [request EXCEPT ![r] = new]
          BY <1>1, <4>1 DEF Worker!Match, WorkerTyped
        <5> HIDE DEF copy
        <5>2. new \in Waiting /\ new.by = request[r].by
          BY <3>2, <3>3 DEF Waiting, copy
        <5>3. QED
          BY <5>1, <5>2
      <4>2. CASE Worker!Respond(r)
        <5> DEFINE new == [request[r] EXCEPT !.at = "served", !.got = deployed]
        <5>1. request' = [request EXCEPT ![r] = new]
          BY <1>1, <4>2 DEF Worker!Respond, WorkerTyped
        <5>2. new \in Waiting /\ new.by = request[r].by
          BY <1>1, <3>2 DEF Waiting, WorkerTyped
        <5>3. QED
          BY <5>1, <5>2
      <4>3. CASE Worker!FetchFails(r)
        <5> DEFINE new == [request[r] EXCEPT !.at = "served", !.url = Offline,
                                             !.got = Worker!Matched(Offline)]
        <5>1. request' = [request EXCEPT ![r] = new] \/ request' = [request EXCEPT ![r] = Worker!Idle]
          BY <1>1, <4>3 DEF Worker!FetchFails, WorkerTyped
        <5>2. new \in Waiting /\ new.by = request[r].by
          BY <3>2, <3>3 DEF Waiting
        <5>3. QED
          BY <5>1, <5>2
      <4>4. QED
        BY <2>4, <4>1, <4>2, <4>3
    <3>5. /\ request' \in [Fetches -> {Worker!Idle} \cup Waiting]
          /\ \A s \in Fetches : request'[s] \in Waiting => request'[s].by <= deployed
      BY <1>1, <2>2, <3>2, <3>4 DEF WorkerTyped, NoneOlder
    <3>6. \/ puts' = puts
          \/ puts' = puts \cup {[by |-> request[r].by, url |-> request[r].url, got |-> deployed]}
      BY <2>4 DEF Worker!Match, Worker!Respond, Worker!FetchFails
    <3>7. /\ request[r].by \in Nat /\ request[r].url \in Asset /\ request[r].by <= deployed
          /\ deployed \in Nat \ {0}
      BY <1>1, <3>2 DEF Waiting, NoneOlder, WorkerTyped
    <3>8. /\ puts' \subseteq [by : Nat, url : Asset, got : Nat \ {0}]
          /\ \A p \in puts' : p.by <= p.got
      BY <1>1, <3>6, <3>7 DEF WorkerTyped, NoneOlder
    <3>9. QED
      BY <1>1, <2>1, <3>5, <3>7, <3>8, FetchingKeeps
  <2>5. QED
    BY <1>8, <2>3, <2>4
<1>9. ASSUME NEW p \in puts, Worker!Put(p) PROVE WorkerInv'
  <2>1. /\ puts' = puts \ {p} /\ caches' = Worker!Opened(p.by, {p.url}, p.got)
        /\ UNCHANGED <<deployed, worker, request>>
    BY <1>9 DEF Worker!Put
  <2>2. p.by \in Nat /\ p.got \in Nat /\ p.got # 0 /\ p.got >= p.by
    BY <1>1 DEF WorkerTyped, NoneOlder
  <2>3. /\ CachesInv'
        /\ \A i \in DOMAIN caches, u \in Nat :
             Full(caches[i], u) => i \in DOMAIN caches' /\ Full(caches'[i], u)
    BY <1>1, <2>1, <2>2, OpenedKeeps
  <2>4. CacheReady'
    BY <1>1, <2>1, <2>3, ReadyKept
  <2>5. QED
    BY <1>1, <2>1, <2>3, <2>4
       DEF WorkerInv, WorkerTyped, NoneOlder, OneWorker, OneCache, CachesInv
<1>10. QED
  BY <1>2, <1>3, <1>4, <1>5, <1>6, <1>7, <1>8, <1>9 DEF Worker!Next

\* The first version is deployed, and there is no cache.
LEMMA InitWorker == Worker!Init => WorkerInv
BY PageAssumption DEF Worker!Init, WorkerInv, WorkerTyped, NoneOlder, OneWorker, OneCache,
       CacheReady, Worker!Idle, Waiting

\* What is left alone of the service worker is still in order.
LEMMA WorkerKept == WorkerInv /\ UNCHANGED workerVars => WorkerInv'
BY DEF workerVars, WorkerInv, WorkerTyped, NoneOlder, OneWorker, OneCache, CacheReady

\* Once a worker is active, no page gets an older copy of an asset it has pre-cached: its
\* cache is the first, and what it holds is no older than itself, whenever a response of
\* an older worker is put (install, activate, fetch).
THEOREM FreshOnceActive == PageSpec => []StaticFresh
<1>1. PageInit => WorkerInv
  BY InitWorker DEF PageInit
<1>2. WorkerInv /\ [PageNext]_pageVars => WorkerInv'
  BY NextWorker, WorkerKept DEF PageNext, pageVars
<1>3. ASSUME WorkerInv PROVE StaticFresh
  <2>1. SUFFICES ASSUME NEW v \in Worker!Version, NEW a \in Static, worker[v] = "active"
                 PROVE  Worker!Matched(a) >= v
    BY DEF StaticFresh, Worker!StaticFresh
  <2>2. caches # << >> /\ Full(caches[1], v) /\ a \in Asset
    BY <1>3, <2>1, PageAssumption DEF WorkerInv, CacheReady
  <2> DEFINE with == {i \in DOMAIN caches : caches[i].has[a] # 0}
  <2>3. 1 \in with /\ with \subseteq Nat \ {0}
    BY <1>3, <2>2 DEF WorkerInv, WorkerTyped, Full
  <2> HIDE DEF with
  <2>4. (CHOOSE i \in with : \A j \in with : i <= j) = 1
    <3>1. \A j \in with : 1 <= j
      BY <2>3
    <3>2. \A i \in with : (\A j \in with : i <= j) => i = 1
      BY <2>3
    <3>3. QED
      BY <2>3, <3>1, <3>2
  <2>5. Worker!Matched(a) = caches[1].has[a]
    BY <2>3, <2>4 DEF Worker!Matched, with
  <2>6. caches[1].has[a] >= v
    BY <1>3, <2>2, <2>3 DEF WorkerInv, NoneOlder, WorkerTyped, Full, with
  <2>7. QED
    BY <2>5, <2>6
<1>4. QED
  BY <1>1, <1>2, <1>3, PTL DEF PageSpec

-----------------------------------------------------------------------------
(* The tokens: theorems about the specification of AuthTokens, and with it *)
(* about the page.                                                         *)

\* A store of tokens.
Tokens == [access : BOOLEAN, refresh : Nat]

\* The views of a page, and those before the chat.
Views == {"auto", "form", "login", "register", "chat", "leaving"}
Early == {"auto", "form", "login", "register"}

\* Where a job may be.
At == {"idle", "waiting", "woken", "reading", "posted", "found", "answered", "storing",
       "verifying"}
Jobs == [at : At, token : Nat]

\* The shapes that the proofs use: those of TypeOK, without the bound.
Shaped ==
    /\ local \in Tokens /\ session \in [Tab -> Tokens] /\ cache \in [Tab -> Tokens]
    /\ flag \in {"none", "local", "session"} /\ mode \in [Tab -> {"local", "session"}]
    /\ page \in [Tab -> Views] /\ job \in [Tab -> [Job -> Jobs]]
    /\ semaphore \in [Tab -> Request \union {Free}]
    /\ live \subseteq Nat /\ issued \in Nat /\ upset \in BOOLEAN

\* Refresh token x is in the localStorage (place {}) or in the sessionStorage
\* of tab t (place {t}).
Kept(p, x) == \/ p = {} /\ local.refresh = x
              \/ \E t \in Tab : p = {t} /\ session[t].refresh = x

\* The place that tab t reads and writes.
Place(t) == IF mode[t] = "session" THEN {t} ELSE {}

\* Job j of tab t is having token x exchanged.
Exchanging(t, j, x) == job[t][j].at \in {"posted", "found"} /\ job[t][j].token = x

\* Job j of tab t has token x from the server, and has not stored it.
Bringing(t, j, x) == job[t][j].at \in {"answered", "storing"} /\ job[t][j].token = x

\* So it has, or it has stored the token and is verifying its device.
Answered(t, j, x) == Bringing(t, j, x) \/ (job[t][j].at = "verifying" /\ job[t][j].token = x)

\* Tab t knows token x by its cache, or is having it exchanged.
Knows(t, x) == cache[t].refresh = x \/ \E j \in Job : Exchanging(t, j, x)

\* No API call is in progress before the chat page, and in the middle of a
\* login nothing else is either.
LoginAlone ==
    \A t \in Tab :
        /\ page[t] \in Early => \A r \in Request : job[t][r].at = "idle"
        /\ page[t] = "login" => \/ job[t][Page].at = "posted" /\ job[t][Page].token = 0
                                \/ job[t][Page].at \in {"answered", "storing", "verifying"}
        /\ page[t] = "register" => job[t][Page].at \in {"answered", "storing", "verifying"}
        /\ job[t][Page].at = "verifying" => page[t] \in {"login", "register"}

\* No place has a token that was not issued, and no two the same, unless a login
\* has stored it again.
KeptApart ==
    \A p \in SUBSET Tab : \A x \in Nat \ {0} : Kept(p, x) =>
        /\ x <= issued
        /\ x \in taken \/ \A q \in SUBSET Tab : Kept(q, x) => p = q

\* No tab knows a token that was not issued.
KnownIssued == \A t \in Tab : \A x \in Nat \ {0} : Knows(t, x) => x <= issued

\* Nor has a job one.
AnsweredIssued ==
    \A t \in Tab : \A j \in Job : \A x \in Nat : Answered(t, j, x) => x \in 1 .. issued

\* A token on its way from the server is new: in no store, brought by one job,
\* and known only to a tab that is storing it for the second time.
BroughtNew ==
    \A t \in Tab : \A j \in Job : \A x \in Nat : Bringing(t, j, x) /\ x \notin taken =>
        /\ upset \/ x \in live
        /\ \A p \in SUBSET Tab : ~Kept(p, x)
        /\ \A u \in Tab : \A k \in Job : Bringing(u, k, x) => u = t /\ k = j
        /\ \A u \in Tab : Knows(u, x) => u = t /\ page[t] = "register"

\* Tab t is about to replace the token at its place.
Replaces(t) == Storing(t) \/ (page[t] = "login" /\ job[t][Page].at = "posted")
Replacing(p) == \E t \in Tab : Place(t) = p /\ Replaces(t)

\* A token that nobody is about to replace is accepted, and whoever knows it
\* would put its successor where it is.
KeptLive ==
    \/ upset \/ taken # {}
    \/ \A p \in SUBSET Tab : \A x \in Nat \ {0} : Kept(p, x) =>
            \/ Replacing(p)
            \/ x \in live /\ \A t \in Tab : Knows(t, x) => Place(t) = p

Inv ==
    /\ Shaped /\ LoginAlone /\ KeptApart /\ KnownIssued /\ AnsweredIssued /\ BroughtNew
    /\ KeptLive

-----------------------------------------------------------------------------
(* Shapes.                                                                 *)

\* Outside its own job, an action leaves jobs alone or wakes one that waits.
SameJob(t, j) == \/ job'[t][j] = job[t][j]
                 \/ job[t][j].at = "waiting" /\ job'[t][j].at = "woken"

\* All jobs but job j of tab t.
OthersSame(t, j) == \A u \in Tab : \A k \in Job : <<u, k>> # <<t, j>> => SameJob(u, k)

\* A job that moves on keeps its token.
LEMMA MovedJob ==
  ASSUME Shaped, NEW t \in Tab, NEW j \in Job, NEW a \in At,
         job' = [job EXCEPT ![t][j].at = a]
  PROVE  /\ job' \in [Tab -> [Job -> Jobs]] /\ OthersSame(t, j)
         /\ job'[t][j].at = a /\ job'[t][j].token = job[t][j].token
<1>1. job \in [Tab -> [Job -> Jobs]] /\ job[t][j] \in Jobs
  BY DEF Shaped, Jobs, At
<1>2. [job[t][j] EXCEPT !.at = a] \in Jobs
  BY <1>1 DEF Jobs
<1>3. job' = [job EXCEPT ![t] = [job[t] EXCEPT ![j] = [job[t][j] EXCEPT !.at = a]]]
  BY <1>1
<1>4. /\ job' \in [Tab -> [Job -> Jobs]] /\ job'[t][j] = [job[t][j] EXCEPT !.at = a]
      /\ \A u \in Tab : \A k \in Job : <<u, k>> # <<t, j>> => job'[u][k] = job[u][k]
  BY <1>1, <1>2, <1>3
<1>. QED BY <1>1, <1>4 DEF OthersSame, SameJob, Jobs

\* A call that ends leaves all others alone, but for one that waits.
LEMMA ReleaseEffect ==
  ASSUME Shaped, NEW t \in Tab, NEW j \in Job, Release(t, j)
  PROVE  /\ job' \in [Tab -> [Job -> Jobs]]
         /\ semaphore' \in [Tab -> Request \union {Free}]
         /\ job'[t][j].at \in {"idle", "woken"}
         /\ OthersSame(t, j)
<1>. DEFINE J(f) == f \in [Tab -> [Job -> Jobs]]
<1>1. J(job) /\ semaphore \in [Tab -> Request \union {Free}] /\ Idle \in Jobs
  BY DEF Shaped, Jobs, At, Idle
<1>2. CASE Waiters(t) = {}
  <2>1. /\ job' = [job EXCEPT ![t][j] = Idle]
        /\ semaphore' = [semaphore EXCEPT ![t] = Free]
    BY <1>2 DEF Release
  <2>. QED BY <1>1, <2>1 DEF OthersSame, SameJob, Idle
<1>3. CASE Waiters(t) # {}
  <2>1. PICK r \in Waiters(t) : /\ job' = [job EXCEPT ![t][j] = Idle, ![t][r].at = "woken"]
                                /\ semaphore' = [semaphore EXCEPT ![t] = r]
    BY <1>3 DEF Release
  <2>2. r \in Request /\ r \in Job /\ job[t][r].at = "waiting"
    BY DEF Waiters, Job
  <2>3. job[t] \in [Job -> Jobs] /\ job[t][r] \in Jobs
    BY <1>1, <2>2
  <2>4. job'[t] = [[job[t] EXCEPT ![j] = Idle] EXCEPT ![r].at = "woken"]
    BY <1>1, <2>1
  <2>5. [job[t] EXCEPT ![j] = Idle] \in [Job -> Jobs]
    BY <1>1, <2>3
  <2>6. /\ job'[t] \in [Job -> Jobs]
        /\ job'[t][r].at = "woken"
        /\ \A k \in Job : k # r => job'[t][k] = [job[t] EXCEPT ![j] = Idle][k]
    BY <2>2, <2>4, <2>5 DEF Jobs, At
  <2>7. /\ job' \in [Tab -> [Job -> Jobs]]
        /\ \A u \in Tab : u # t => job'[u] = job[u]
    BY <1>1, <2>1, <2>6
  <2>8. job'[t][j].at \in {"idle", "woken"}
    BY <2>3, <2>6 DEF Idle
  <2>9. OthersSame(t, j)
    BY <2>2, <2>3, <2>6, <2>7 DEF OthersSame, SameJob
  <2>. QED BY <1>1, <2>1, <2>2, <2>7, <2>8, <2>9
<1>. QED BY <1>2, <1>3

-----------------------------------------------------------------------------
(* Steps that issue no token and store none.                               *)

\* What such a step of job j of tab t does.
Quiet(t, j) ==
    /\ OthersSame(t, j)
    /\ \A x \in Nat : Bringing(t, j, x)' => Bringing(t, j, x)
    /\ \A x \in Nat : Answered(t, j, x)' => Answered(t, j, x)
    /\ \A x \in Nat \ {0} : Knows(t, x)' => Knows(t, x) \/ Kept(Place(t), x)
    /\ \A u \in Tab : u # t => /\ cache'[u] = cache[u] /\ page'[u] = page[u]
                               /\ mode'[u] = mode[u]
    /\ live' = live /\ issued' = issued /\ taken' = taken
    /\ \A p \in SUBSET Tab : \A x \in Nat \ {0} : Kept(p, x)' => Kept(p, x)
    /\ \/ mode'[t] = mode[t]
       \/ \A x \in Nat \ {0} : ~Kept({}, x)' /\ ~Kept({t}, x)'
    /\ upset => upset'
    /\ \/ upset'
       \/ Replaces(t) => Replaces(t)'
       \/ \A p \in SUBSET Tab : \A x \in Nat \ {0} : p = Place(t) => ~Kept(p, x)'
    /\ page[t] = "register" => page'[t] = "register" \/ ~Storing(t)'

\* The place of a tab names the store that the tab reads and writes.
LEMMA PlaceIsKept ==
  ASSUME Shaped, NEW t \in Tab
  PROVE  /\ Place(t) \in SUBSET Tab /\ Place(t) \in {{}, {t}}
         /\ StoreOf(t) \in Tokens
         /\ \A x : Kept(Place(t), x) <=> StoreOf(t).refresh = x
BY DEF Shaped, Place, Kept, StoreOf

\* Under a quiet step, the jobs that exchange or bring tokens are some of
\* those that did.
LEMMA QuietJobs ==
  ASSUME NEW t \in Tab, NEW j \in Job, Quiet(t, j)
  PROVE  /\ \A u \in Tab : \A k \in Job : \A x \in Nat :
                /\ Bringing(u, k, x)' => Bringing(u, k, x)
                /\ Answered(u, k, x)' => Answered(u, k, x)
         /\ \A u \in Tab : \A x \in Nat \ {0} :
                u # t => (Knows(u, x)' => Knows(u, x)) /\ (Replaces(u) => Replaces(u)')
<1>1. \A u \in Tab : \A k \in Job : <<u, k>> # <<t, j>> => SameJob(u, k)
  BY DEF Quiet, OthersSame
<1>2. \A u \in Tab : \A k \in Job : SameJob(u, k) =>
         /\ job'[u][k].at \in {"posted", "found", "answered", "storing", "verifying"} =>
                job'[u][k] = job[u][k]
         /\ job[u][k].at \in {"posted", "found", "answered", "storing"} => job'[u][k] = job[u][k]
  BY DEF SameJob
<1>3. \A x \in Nat : /\ Bringing(t, j, x)' => Bringing(t, j, x)
                     /\ Answered(t, j, x)' => Answered(t, j, x)
  BY DEF Quiet
<1>4. \A u \in Tab : \A k \in Job : \A x \in Nat :
         /\ Bringing(u, k, x)' => Bringing(u, k, x)
         /\ Answered(u, k, x)' => Answered(u, k, x)
  BY <1>1, <1>2, <1>3 DEF Bringing, Answered
<1>5. \A u \in Tab : \A x \in Nat \ {0} :
         u # t => (Knows(u, x)' => Knows(u, x)) /\ (Replaces(u) => Replaces(u)')
  <2> SUFFICES ASSUME NEW u \in Tab, NEW x \in Nat \ {0}, u # t
               PROVE  (Knows(u, x)' => Knows(u, x)) /\ (Replaces(u) => Replaces(u)')
    OBVIOUS
  <2>1. cache'[u] = cache[u] /\ page'[u] = page[u] /\ Page \in Job
    BY DEF Quiet, Job
  <2>2. \A k \in Job : Exchanging(u, k, x)' => Exchanging(u, k, x)
    BY <1>1, <1>2 DEF Exchanging
  <2>3. Storing(u) => Storing(u)'
    BY <1>1, <1>2 DEF Storing
  <2>4. job[u][Page].at = "posted" => job'[u][Page].at = "posted"
    BY <1>1, <1>2, <2>1
  <2>. QED BY <2>1, <2>2, <2>3, <2>4 DEF Knows, Replaces
<1>. QED BY <1>4, <1>5

\* A quiet step keeps the invariant: what is stored, known or on its way
\* after it was so before, or comes from the place of the tab itself.
LEMMA QuietKeeps ==
  ASSUME Inv, Shaped', LoginAlone', NEW t \in Tab, NEW j \in Job, Quiet(t, j)
  PROVE  Inv'
<1>1. /\ \A u \in Tab : \A k \in Job : \A x \in Nat :
             /\ Bringing(u, k, x)' => Bringing(u, k, x)
             /\ Answered(u, k, x)' => Answered(u, k, x)
      /\ \A u \in Tab : \A x \in Nat \ {0} :
             u # t => (Knows(u, x)' => Knows(u, x)) /\ (Replaces(u) => Replaces(u)')
  BY QuietJobs
<1>2. \A p \in SUBSET Tab : \A x \in Nat \ {0} : Kept(p, x)' => Kept(p, x)
  BY DEF Quiet
<1>3. live' = live /\ issued' = issued /\ taken' = taken /\ (upset => upset')
  BY DEF Quiet
<1>4. \A u \in Tab : \A x \in Nat \ {0} :
         Knows(u, x)' => Knows(u, x) \/ (u = t /\ Kept(Place(t), x))
  BY <1>1 DEF Quiet
<1>5. /\ Place(t) \in SUBSET Tab /\ Place(t) \in {{}, {t}}
  BY PlaceIsKept DEF Inv
<1>6. KeptApart'
  BY <1>2, <1>3 DEF KeptApart, Inv
<1>7. KnownIssued'
  BY <1>3, <1>4, <1>5 DEF KnownIssued, KeptApart, Inv
<1>a. AnsweredIssued'
  BY <1>1, <1>3 DEF AnsweredIssued, Inv
<1>8. BroughtNew'
  <2> SUFFICES ASSUME NEW u \in Tab, NEW k \in Job, NEW x \in Nat, Bringing(u, k, x)',
                      x \notin taken'
               PROVE  /\ upset' \/ x \in live'
                      /\ \A p \in SUBSET Tab : ~Kept(p, x)'
                      /\ \A v \in Tab : \A l \in Job : Bringing(v, l, x)' => v = u /\ l = k
                      /\ \A v \in Tab : Knows(v, x)' => v = u /\ page'[u] = "register"
    BY DEF BroughtNew
  <2>1. Bringing(u, k, x) /\ x \notin taken
    BY <1>1, <1>3
  <2>2. /\ x \in 1 .. issued
        /\ upset \/ x \in live
        /\ \A p \in SUBSET Tab : ~Kept(p, x)
        /\ \A v \in Tab : \A l \in Job : Bringing(v, l, x) => v = u /\ l = k
        /\ \A v \in Tab : Knows(v, x) => v = u /\ page[u] = "register"
    BY <2>1 DEF BroughtNew, AnsweredIssued, Answered, Inv
  <2>3. x \in Nat \ {0}
    BY <2>2 DEF Shaped, Inv
  <2>4. \A v \in Tab : Knows(v, x)' => v = u /\ page[u] = "register"
    BY <1>4, <1>5, <2>2, <2>3
  <2>5. Storing(u)'
    BY DEF Bringing, Storing
  <2>6. page[u] = "register" => page'[u] = "register"
    BY <2>5 DEF Quiet
  <2>. QED BY <1>1, <1>2, <1>3, <2>2, <2>3, <2>4, <2>6
<1>9. KeptLive'
  <2> SUFFICES ASSUME ~upset', taken' = {}, NEW p \in SUBSET Tab, NEW x \in Nat \ {0}, Kept(p, x)'
               PROVE  \/ Replacing(p)'
                      \/ x \in live' /\ \A u \in Tab : Knows(u, x)' => Place(u)' = p
    BY DEF KeptLive
  <2>1. ~upset /\ taken = {} /\ Kept(p, x)
    BY <1>2, <1>3
  <2>2. \A q \in SUBSET Tab : Kept(q, x) => p = q
    BY <2>1 DEF KeptApart, Inv
  <2>3. \A u \in Tab : u # t => Place(u)' = Place(u)
    BY DEF Place, Quiet
  <2>4. \/ Place(t)' = Place(t)
        \/ p # {} /\ p # {t}
    BY DEF Place, Quiet
  <2>5. CASE Replacing(p)
    <3>1. PICK u \in Tab : Place(u) = p /\ Replaces(u)
      BY <2>5 DEF Replacing
    <3>2. CASE u = t
      <4>1. Replaces(t)'
        BY <2>1, <3>1, <3>2 DEF Quiet
      <4>2. Place(t)' = p
        BY <1>5, <2>4, <3>1, <3>2
      <4>. QED BY <4>1, <4>2 DEF Replacing
    <3>3. CASE u # t
      BY <1>1, <2>3, <3>1, <3>3 DEF Replacing, Quiet
    <3>. QED BY <3>2, <3>3
  <2>6. CASE ~Replacing(p)
    <3>1. x \in live /\ \A u \in Tab : Knows(u, x) => Place(u) = p
      BY <2>1, <2>6 DEF KeptLive, Inv
    <3>. QED BY <1>3, <1>4, <1>5, <2>2, <2>3, <2>4, <3>1
  <2>. QED BY <2>5, <2>6
<1>. QED BY <1>6, <1>7, <1>a, <1>8, <1>9 DEF Inv

\* clearAuthData leaves no token where tab t could have one.
LEMMA ClearEffect ==
  ASSUME Shaped, NEW t \in Tab, ClearAuthData(t)
  PROVE  /\ local' \in Tokens /\ session' \in [Tab -> Tokens] /\ flag' = "none"
         /\ mode' \in [Tab -> {"local", "session"}] /\ mode'[t] = "local"
         /\ \A u \in Tab : u # t => mode'[u] = mode[u]
         /\ \A p \in SUBSET Tab : \A x \in Nat \ {0} : Kept(p, x)' => Kept(p, x)
         /\ \A x \in Nat \ {0} : ~Kept({}, x)' /\ ~Kept({t}, x)'
<1>1. /\ local' = Empty /\ session' = [session EXCEPT ![t] = Empty]
      /\ flag' = "none" /\ mode' = [mode EXCEPT ![t] = "local"]
  BY DEF ClearAuthData
<1>2. Empty \in Tokens /\ Empty.refresh = 0
  BY DEF Empty, Tokens
<1>3. /\ session \in [Tab -> Tokens] /\ mode \in [Tab -> {"local", "session"}]
  BY DEF Shaped
<1>4. \A p \in SUBSET Tab : \A x \in Nat \ {0} : Kept(p, x)' => Kept(p, x)
  BY <1>1, <1>2, <1>3 DEF Kept
<1>5. \A x \in Nat \ {0} : ~Kept({}, x)' /\ ~Kept({t}, x)'
  BY <1>1, <1>2, <1>3 DEF Kept
<1>. QED BY <1>1, <1>2, <1>3, <1>4, <1>5

\* What Fail changes: its job, and, for the page's own, the page; automatic
\* login clears the tokens that were refused.
LEMMA FailEffect ==
  ASSUME Shaped, NEW t \in Tab, NEW j \in Job, NEW refused \in BOOLEAN, Fail(t, j, refused)
  PROVE  /\ job' \in [Tab -> [Job -> Jobs]] /\ semaphore' \in [Tab -> Request \union {Free}]
         /\ job'[t][j].at \in {"idle", "woken"} /\ OthersSame(t, j)
         /\ j = Page => job'[t][j].at = "idle"
         /\ cache' = cache
         /\ page' \in [Tab -> Views]
         /\ \A u \in Tab : u # t => page'[u] = page[u] /\ mode'[u] = mode[u]
         /\ j # Page => page'[t] = page[t]
         /\ j = Page => page'[t] = (IF page[t] = "auto" THEN "form" ELSE "leaving")
         /\ local' \in Tokens /\ session' \in [Tab -> Tokens]
         /\ flag' \in {"none", "local", "session"} /\ mode' \in [Tab -> {"local", "session"}]
         /\ \A p \in SUBSET Tab : \A x \in Nat \ {0} : Kept(p, x)' => Kept(p, x)
         /\ \/ mode'[t] = mode[t]
            \/ \A x \in Nat \ {0} : ~Kept({}, x)' /\ ~Kept({t}, x)'
<1>1. CASE j # Page
  <2>1. Release(t, j) /\ UNCHANGED pages
    BY <1>1 DEF Fail
  <2>2. \A p, x : Kept(p, x)' <=> Kept(p, x)
    BY <2>1 DEF pages, Kept
  <2>. QED BY <1>1, <2>1, <2>2, ReleaseEffect DEF pages, Shaped
<1>2. CASE j = Page
  <2>1. /\ job' = [job EXCEPT ![t][j] = Idle]
        /\ page' = [page EXCEPT ![t] = IF @ = "auto" THEN "form" ELSE "leaving"]
        /\ cache' = cache /\ semaphore' = semaphore
        /\ IF refused /\ page[t] = "auto" THEN ClearAuthData(t)
           ELSE UNCHANGED <<local, flag, session, mode>>
    BY <1>2 DEF Fail
  <2>2. /\ job' \in [Tab -> [Job -> Jobs]] /\ job'[t][j].at = "idle" /\ OthersSame(t, j)
    BY <2>1 DEF Shaped, Jobs, At, Idle, OthersSame, SameJob
  <2>3. /\ page' \in [Tab -> Views]
        /\ \A u \in Tab : u # t => page'[u] = page[u]
        /\ page'[t] = (IF page[t] = "auto" THEN "form" ELSE "leaving")
        /\ semaphore' \in [Tab -> Request \union {Free}]
    BY <2>1 DEF Shaped, Views
  <2>4. CASE refused /\ page[t] = "auto"
    BY <1>2, <2>1, <2>2, <2>3, <2>4, ClearEffect
  <2>5. CASE ~(refused /\ page[t] = "auto")
    <3>1. UNCHANGED <<local, flag, session, mode>>
      BY <2>1, <2>5
    <3>2. \A p, x : Kept(p, x)' <=> Kept(p, x)
      BY <3>1 DEF Kept
    <3>. QED BY <1>2, <2>1, <2>2, <2>3, <3>1, <3>2 DEF Shaped
  <2>. QED BY <2>4, <2>5
<1>. QED BY <1>1, <1>2

\* LoginAlone after a step of job j of tab t.
LEMMA AloneAfter ==
  ASSUME Shaped, LoginAlone, NEW t \in Tab, NEW j \in Job, OthersSame(t, j),
         \A u \in Tab : u # t => page'[u] = page[u],
         page'[t] \in Early =>
             \/ page[t] \in Early /\ j = Page
             \/ \A r \in Request : job'[t][r].at = "idle",
         \/ j # Page /\ page'[t] = page[t]
         \/ /\ page'[t] = "login" =>
                   \/ job'[t][Page].at = "posted" /\ job'[t][Page].token = 0
                   \/ job'[t][Page].at \in {"answered", "storing", "verifying"}
            /\ page'[t] = "register" =>
                   job'[t][Page].at \in {"answered", "storing", "verifying"}
            /\ job'[t][Page].at = "verifying" => page'[t] \in {"login", "register"}
  PROVE  LoginAlone'
<1>1. Page \in Job /\ Request \subseteq Job
  BY DEF Job
<1>2. \A u \in Tab : \A k \in Job : <<u, k>> # <<t, j>> =>
         /\ job[u][k].at = "idle" => job'[u][k].at = "idle"
         /\ job[u][k].at \in {"posted", "answered", "storing", "verifying"} =>
                job'[u][k] = job[u][k]
         /\ job'[u][k].at = "verifying" => job'[u][k] = job[u][k]
  BY DEF OthersSame, SameJob
<1>3. \A r \in Request : r # Page
  BY NamesApart
<1>4. \A u \in Tab : page'[u] \in Early => \A r \in Request : job'[u][r].at = "idle"
  BY <1>1, <1>2, <1>3 DEF LoginAlone
<1>5. \A u \in Tab :
         /\ page'[u] = "login" =>
                \/ job'[u][Page].at = "posted" /\ job'[u][Page].token = 0
                \/ job'[u][Page].at \in {"answered", "storing", "verifying"}
         /\ page'[u] = "register" => job'[u][Page].at \in {"answered", "storing", "verifying"}
         /\ job'[u][Page].at = "verifying" => page'[u] \in {"login", "register"}
  BY <1>1, <1>2 DEF LoginAlone
<1>. QED BY <1>4, <1>5 DEF LoginAlone

\* A job that fails is quiet; if it loses an answer, that is noted.
LEMMA FailKeeps ==
  ASSUME Inv, NEW t \in Tab, NEW j \in Job, NEW refused \in BOOLEAN,
         Fail(t, j, refused), UNCHANGED <<live, issued, taken>>, upset' \in BOOLEAN, upset => upset',
         job[t][j].at # "idle", ~(j = Page /\ page[t] \in {"login", "register"}),
         job[t][j].at \in {"answered", "storing"} => upset'
  PROVE  Inv'
<1>0. Shaped /\ LoginAlone
  BY DEF Inv
<1>1. /\ job' \in [Tab -> [Job -> Jobs]] /\ semaphore' \in [Tab -> Request \union {Free}]
      /\ job'[t][j].at \in {"idle", "woken"} /\ OthersSame(t, j)
      /\ j = Page => job'[t][j].at = "idle"
      /\ cache' = cache
  BY <1>0, FailEffect
<1>b. /\ page' \in [Tab -> Views]
      /\ \A u \in Tab : u # t => page'[u] = page[u]
  <2>1. page' = page \/ \E v \in {"form", "leaving"} : page' = [page EXCEPT ![t] = v]
    BY DEF Fail, pages
  <2>. QED BY <1>0, <2>1 DEF Shaped, Views
<1>d. \A u \in Tab : u # t => mode'[u] = mode[u]
  BY <1>0, FailEffect
<1>c. /\ j # Page => page'[t] = page[t]
      /\ j = Page => page'[t] = (IF page[t] = "auto" THEN "form" ELSE "leaving")
  BY <1>0, FailEffect
<1>a. /\ local' \in Tokens /\ session' \in [Tab -> Tokens]
      /\ flag' \in {"none", "local", "session"} /\ mode' \in [Tab -> {"local", "session"}]
  BY <1>0, FailEffect
<1>2. /\ \A p \in SUBSET Tab : \A x \in Nat \ {0} : Kept(p, x)' => Kept(p, x)
      /\ \/ mode'[t] = mode[t]
         \/ \A x \in Nat \ {0} : ~Kept({}, x)' /\ ~Kept({t}, x)'
  BY <1>0, FailEffect
<1>3. Shaped'
  BY <1>0, <1>1, <1>a, <1>b DEF Shaped
<1>4. j # Page => j \in Request
  BY DEF Job
<1>5. page'[t] \in Early => page[t] \in Early /\ j = Page
  BY <1>0, <1>b, <1>c, <1>4 DEF LoginAlone, Early
<1>6. page'[t] \notin {"login", "register"} /\ page[t] \notin {"login", "register"}
  BY <1>0, <1>b, <1>c, <1>4, <1>5 DEF LoginAlone, Early
<1>7. LoginAlone'
  BY <1>0, <1>1, <1>b, <1>c, <1>5, <1>6, AloneAfter
<1>8. \A x \in Nat : ~Bringing(t, j, x)' /\ ~Answered(t, j, x)' /\ ~Exchanging(t, j, x)'
  BY <1>1 DEF Bringing, Answered, Exchanging
<1>9. \A k \in Job : \A x \in Nat : Exchanging(t, k, x)' => Exchanging(t, k, x)
  BY <1>1, <1>8 DEF OthersSame, SameJob, Exchanging
<1>10. \A x \in Nat \ {0} : Knows(t, x)' => Knows(t, x)
  BY <1>1, <1>9 DEF Knows
<1>11. upset' \/ (Replaces(t) => Replaces(t)')
  BY <1>1, <1>b, <1>c, <1>6 DEF Storing, Replaces, OthersSame, SameJob
<1>12. Quiet(t, j)
  BY <1>1, <1>b, <1>c, <1>d, <1>2, <1>6, <1>8, <1>10, <1>11 DEF Quiet
<1>. QED BY <1>3, <1>7, <1>12, QuietKeeps

\* The connection fails: upset records the token that is lost with an answer.
LEMMA LostKeeps ==
  ASSUME Inv, NEW t \in Tab, NEW j \in Job, Lost(t, j)
  PROVE  Inv'
<1>1. /\ Fail(t, j, FALSE) /\ UNCHANGED <<live, issued, taken>>
      /\ ~(j = Page /\ page[t] \in {"login", "register"})
  BY DEF Lost, server
<1>2. upset' = (upset \/ job[t][j].at = "answered") /\ job[t][j].at \in {"posted", "answered"}
  BY DEF Lost
<1>. QED BY <1>1, <1>2, FailKeeps DEF Inv, Shaped

\* The server looks the token up: it is found, or the job ends without one.
LEMMA FindTokenKeeps ==
  ASSUME Inv, NEW t \in Tab, NEW j \in Job, FindToken(t, j)
  PROVE  Inv'
<1>0. Shaped /\ LoginAlone
  BY DEF Inv
<1>1. /\ job[t][j].at = "posted" /\ job[t][j].token # 0
      /\ UNCHANGED <<live, issued, upset, taken>>
  BY DEF FindToken, server, history
<1>2. ~(j = Page /\ page[t] \in {"login", "register"})
  BY <1>0, <1>1 DEF LoginAlone
<1>3. CASE job[t][j].token \notin live
  <2>1. Fail(t, j, TRUE)
    BY <1>3 DEF FindToken
  <2>. QED BY <1>0, <1>1, <1>2, <2>1, FailKeeps DEF Shaped
<1>4. CASE job[t][j].token \in live
  <2>1. job' = [job EXCEPT ![t][j].at = "found"] /\ UNCHANGED <<pages, semaphore>>
    BY <1>4 DEF FindToken
  <2>2. /\ job' \in [Tab -> [Job -> Jobs]] /\ OthersSame(t, j)
        /\ job'[t][j].at = "found" /\ job'[t][j].token = job[t][j].token
    BY <1>0, <2>1, MovedJob DEF At
  <2>3. Shaped'
    BY <1>0, <1>1, <2>1, <2>2 DEF Shaped, Jobs, At, pages
  <2>4. j \in Request => page[t] \notin Early
    BY <1>0, <1>1 DEF LoginAlone
  <2>5. LoginAlone'
    BY <1>0, <1>2, <2>1, <2>2, <2>4, AloneAfter DEF pages, Job
  <2>6. \A p, x : Kept(p, x)' <=> Kept(p, x)
    BY <2>1 DEF Kept, pages
  <2>7. \A k \in Job : \A x \in Nat : /\ Exchanging(t, k, x)' => Exchanging(t, k, x)
                                      /\ Bringing(t, k, x)' <=> Bringing(t, k, x)
                                      /\ Answered(t, k, x)' <=> Answered(t, k, x)
    BY <1>1, <2>2 DEF OthersSame, SameJob, Exchanging, Bringing, Answered
  <2>8. \A x \in Nat \ {0} : Knows(t, x)' => Knows(t, x)
    BY <2>1, <2>7 DEF Knows, pages
  <2>9. Replaces(t) => Replaces(t)'
    BY <1>1, <1>2, <2>1, <2>2 DEF Storing, Replaces, OthersSame, SameJob, pages
  <2>10. Quiet(t, j)
    BY <1>1, <2>1, <2>2, <2>6, <2>7, <2>8, <2>9 DEF Quiet, pages
  <2>. QED BY <2>3, <2>5, <2>10, QuietKeeps
<1>. QED BY <1>3, <1>4

\* A job reads the tokens: it learns none but the one at the place of its tab.
LEMMA ReadTokensKeeps ==
  ASSUME Inv, NEW t \in Tab, NEW j \in Job, ReadTokens(t, j)
  PROVE  Inv'
<1>. DEFINE seen == Merge(cache[t], StoreOf(t))
<1>0. Shaped /\ LoginAlone
  BY DEF Inv
<1>1. job[t][j].at = "reading" /\ UNCHANGED <<live, issued, upset, taken>>
  BY DEF ReadTokens, server, history
<1>2. ~(j = Page /\ page[t] \in {"login", "register"})
  BY <1>0, <1>1 DEF LoginAlone
<1>3. CASE ~(seen.access /\ seen.refresh # 0)
  <2>1. Fail(t, j, FALSE)
    BY <1>3 DEF ReadTokens
  <2>. QED BY <1>0, <1>1, <1>2, <2>1, FailKeeps DEF Shaped
<1>4. CASE seen.access /\ seen.refresh # 0
  <2>1. /\ job' = [job EXCEPT ![t][j] = [at |-> "posted", token |-> seen.refresh]]
        /\ cache' = [cache EXCEPT ![t] = seen]
        /\ UNCHANGED <<local, flag, session, mode, page, semaphore>>
    BY <1>4 DEF ReadTokens
  <2>a. cache[t] \in Tokens /\ StoreOf(t) \in Tokens
    BY <1>0, PlaceIsKept DEF Shaped
  <2>b. seen = [access |-> cache[t].access \/ StoreOf(t).access,
                refresh |-> IF cache[t].refresh # 0 THEN cache[t].refresh ELSE StoreOf(t).refresh]
    BY DEF Merge
  <2>c. (cache[t].access \/ StoreOf(t).access) \in BOOLEAN
    BY <2>a DEF Tokens
  <2>d. seen \in Tokens /\ seen.refresh \in Nat
        /\ seen.refresh \in {cache[t].refresh, StoreOf(t).refresh}
    BY <2>a, <2>b, <2>c DEF Tokens
  <2>. HIDE DEF seen
  <2>2. /\ job' \in [Tab -> [Job -> Jobs]] /\ OthersSame(t, j)
        /\ job'[t][j].at = "posted" /\ job'[t][j].token = seen.refresh
    BY <1>0, <2>1, <2>d DEF Shaped, Jobs, At, OthersSame, SameJob
  <2>3. Shaped'
    BY <1>0, <1>1, <2>1, <2>2, <2>d DEF Shaped, Jobs, At
  <2>4. j \in Request => page[t] \notin Early
    BY <1>0, <1>1 DEF LoginAlone
  <2>5. LoginAlone'
    BY <1>0, <1>2, <2>1, <2>2, <2>4, AloneAfter DEF Job
  <2>6. \A p, x : Kept(p, x)' <=> Kept(p, x)
    BY <2>1 DEF Kept
  <2>7. \A k \in Job : \A x \in Nat :
           /\ Exchanging(t, k, x)' => Exchanging(t, k, x) \/ x = seen.refresh
           /\ Bringing(t, k, x)' <=> Bringing(t, k, x)
           /\ Answered(t, k, x)' <=> Answered(t, k, x)
    BY <1>1, <2>2 DEF OthersSame, SameJob, Exchanging, Bringing, Answered
  <2>8. cache'[t] = seen /\ \A u \in Tab : u # t => cache'[u] = cache[u]
    BY <1>0, <2>1 DEF Shaped
  <2>9. \A x \in Nat \ {0} : Knows(t, x)' => Knows(t, x) \/ Kept(Place(t), x)
    BY <1>0, <2>7, <2>8, <2>d, PlaceIsKept DEF Knows
  <2>10. Replaces(t) => Replaces(t)'
    BY <1>1, <1>2, <2>1, <2>2 DEF Storing, Replaces, OthersSame, SameJob
  <2>11. Quiet(t, j)
    BY <1>1, <2>1, <2>2, <2>6, <2>7, <2>8, <2>9, <2>10 DEF Quiet
  <2>. QED BY <2>3, <2>5, <2>11, QuietKeeps
<1>. QED BY <1>3, <1>4

\* A call that has waited ends, and passes the semaphore on.
LEMMA WokenKeeps ==
  ASSUME Inv, NEW t \in Tab, NEW j \in Job, Woken(t, j)
  PROVE  Inv'
<1>0. Shaped /\ LoginAlone
  BY DEF Inv
<1>1. job[t][j].at = "woken" /\ Release(t, j) /\ UNCHANGED <<pages, live, issued, upset, taken>>
  BY DEF Woken, server, history
<1>2. /\ job' \in [Tab -> [Job -> Jobs]] /\ semaphore' \in [Tab -> Request \union {Free}]
      /\ job'[t][j].at \in {"idle", "woken"} /\ OthersSame(t, j)
  BY <1>0, <1>1, ReleaseEffect
<1>3. Shaped'
  BY <1>0, <1>1, <1>2 DEF Shaped, Jobs, At, pages
<1>4. page[t] \in Early => j = Page /\ page[t] \notin {"login", "register"}
  BY <1>0, <1>1 DEF LoginAlone, Job
<1>a. job'[t][Page].at # "verifying" \/ j # Page
  BY <1>2
<1>5. LoginAlone'
  BY <1>0, <1>1, <1>2, <1>4, <1>a, AloneAfter DEF pages, Early
<1>6. \A p, x : Kept(p, x)' <=> Kept(p, x)
  BY <1>1 DEF Kept, pages
<1>7. \A k \in Job : \A x \in Nat : /\ Exchanging(t, k, x)' => Exchanging(t, k, x)
                                    /\ Bringing(t, k, x)' => Bringing(t, k, x)
                                    /\ Answered(t, k, x)' => Answered(t, k, x)
  BY <1>2 DEF OthersSame, SameJob, Exchanging, Bringing, Answered
<1>8. \A x \in Nat \ {0} : Knows(t, x)' => Knows(t, x)
  BY <1>1, <1>7 DEF Knows, pages
<1>9. Replaces(t) => Replaces(t)'
  BY <1>1, <1>2, <1>4 DEF Storing, Replaces, OthersSame, SameJob, pages, Early
<1>10. Quiet(t, j)
  BY <1>1, <1>2, <1>6, <1>7, <1>8, <1>9 DEF Quiet, pages
<1>. QED BY <1>3, <1>5, <1>10, QuietKeeps

\* A job that starts without a token is quiet.
LEMMA StartKeeps ==
  ASSUME Inv, NEW t \in Tab, NEW j \in Job, NEW a \in {"reading", "waiting"},
         page[t] = "chat", StartJob(t, j, a), UNCHANGED <<pages, server, history>>,
         semaphore' \in [Tab -> Request \union {Free}]
  PROVE  Inv'
<1>0. Shaped /\ LoginAlone
  BY DEF Inv
<1>1. job[t][j].at = "idle" /\ job' = [job EXCEPT ![t][j] = [at |-> a, token |-> 0]]
  BY DEF StartJob, Idle
<1>2. /\ job' \in [Tab -> [Job -> Jobs]] /\ OthersSame(t, j)
      /\ job'[t][j].at \in {"reading", "waiting"}
  BY <1>0, <1>1 DEF Shaped, Jobs, At, OthersSame, SameJob
<1>3. Shaped'
  BY <1>0, <1>2 DEF Shaped, Jobs, At, pages, server, history
<1>4. LoginAlone'
  BY <1>0, <1>2, AloneAfter DEF pages, Early
<1>5. \A p, x : Kept(p, x)' <=> Kept(p, x)
  BY DEF Kept, pages
<1>6. \A k \in Job : \A x \in Nat : /\ Exchanging(t, k, x)' => Exchanging(t, k, x)
                                    /\ Bringing(t, k, x)' => Bringing(t, k, x)
                                    /\ Answered(t, k, x)' => Answered(t, k, x)
  BY <1>2 DEF OthersSame, SameJob, Exchanging, Bringing, Answered
<1>7. \A x \in Nat \ {0} : Knows(t, x)' => Knows(t, x)
  BY <1>6 DEF Knows, pages
<1>8. Replaces(t) => Replaces(t)'
  BY <1>1, <1>2 DEF Storing, Replaces, OthersSame, SameJob, pages
<1>9. Quiet(t, j)
  BY <1>2, <1>5, <1>6, <1>7, <1>8 DEF Quiet, pages, server, history
<1>. QED BY <1>3, <1>4, <1>9, QuietKeeps

\* The refresh timer of a tab starts its job.
LEMMA TimerKeeps ==
  ASSUME Inv, NEW t \in Tab, Timer(t)
  PROVE  Inv'
BY StartKeeps DEF Timer, Job, Inv, Shaped

\* An API call that is answered 401 starts its job, or waits.
LEMMA ExpiredKeeps ==
  ASSUME Inv, NEW t \in Tab, NEW r \in Requests[t], Expired(t, r)
  PROVE  Inv'
<1>1. r \in Request /\ r \in Job
  BY DEF Request, Job
<1>2. semaphore' \in [Tab -> Request \union {Free}]
  BY <1>1 DEF Expired, Inv, Shaped
<1>. QED BY <1>1, <1>2, StartKeeps DEF Expired

\* The logout button clears what the tab could have, and forgets it.
LEMMA LogoutKeeps ==
  ASSUME Inv, NEW t \in Tab, Logout(t)
  PROVE  Inv'
<1>0. Shaped /\ LoginAlone /\ Page \in Job
  BY DEF Inv, Job
<1>1. /\ page[t] = "chat" /\ \A j \in Job : job[t][j] = Idle
      /\ ClearAuthData(t)
      /\ cache' = [cache EXCEPT ![t] = Empty] /\ page' = [page EXCEPT ![t] = "form"]
      /\ UNCHANGED <<job, semaphore, live, issued, upset, taken>>
  BY DEF Logout, server, history
<1>2. Empty \in Tokens /\ Empty.refresh = 0 /\ Idle.at = "idle"
  BY DEF Empty, Tokens, Idle
<1>3. /\ local' \in Tokens /\ session' \in [Tab -> Tokens] /\ flag' = "none"
      /\ mode' \in [Tab -> {"local", "session"}]
      /\ \A u \in Tab : u # t => mode'[u] = mode[u]
      /\ \A p \in SUBSET Tab : \A x \in Nat \ {0} : Kept(p, x)' => Kept(p, x)
      /\ \A x \in Nat \ {0} : ~Kept({}, x)' /\ ~Kept({t}, x)'
  BY <1>0, <1>1, ClearEffect
<1>4. Shaped'
  BY <1>0, <1>1, <1>2, <1>3 DEF Shaped, Views
<1>5. OthersSame(t, Page)
  BY <1>1 DEF OthersSame, SameJob
<1>6. \A j \in Job : job'[t][j].at = "idle"
  BY <1>1, <1>2
<1>7. LoginAlone'
  BY <1>0, <1>1, <1>5, <1>6, AloneAfter DEF Shaped, Job
<1>8. \A x \in Nat \ {0} : ~Knows(t, x)'
  BY <1>0, <1>1, <1>2, <1>6 DEF Knows, Exchanging, Shaped
<1>9. ~Replaces(t)
  BY <1>1, <1>2 DEF Storing, Replaces
<1>10. Quiet(t, Page)
  BY <1>0, <1>1, <1>3, <1>5, <1>6, <1>8, <1>9 DEF Quiet, Bringing, Answered, Shaped
<1>. QED BY <1>0, <1>4, <1>7, <1>10, QuietKeeps

\* A login that fails leaves a token that it has moved only with upset noted.
LEMMA LoginFailsKeeps ==
  ASSUME Inv, NEW t \in Tab, LoginFails(t)
  PROVE  Inv'
<1>0. Shaped /\ LoginAlone /\ Page \in Job
  BY DEF Inv, Job
<1>1. /\ page[t] = "login" /\ job[t][Page].at = "posted"
      /\ page' = [page EXCEPT ![t] = "form"]
      /\ job' = [job EXCEPT ![t][Page] = Idle]
      /\ upset' = (upset \/ StoreOf(t).refresh # 0)
      /\ UNCHANGED <<local, flag, session, mode, cache, semaphore, live, issued, taken>>
  BY DEF LoginFails, server
<1>2. /\ job' \in [Tab -> [Job -> Jobs]] /\ OthersSame(t, Page)
      /\ job'[t][Page].at = "idle"
  BY <1>0, <1>1 DEF Shaped, Jobs, At, Idle, OthersSame, SameJob
<1>3. Shaped'
  BY <1>0, <1>1, <1>2 DEF Shaped, Views
<1>4. LoginAlone'
  BY <1>0, <1>1, <1>2, AloneAfter DEF Shaped, Early
<1>5. \A p, x : Kept(p, x)' <=> Kept(p, x)
  BY <1>1 DEF Kept
<1>6. \A k \in Job : \A x \in Nat : /\ Exchanging(t, k, x)' => Exchanging(t, k, x)
                                    /\ Bringing(t, k, x)' => Bringing(t, k, x)
                                    /\ Answered(t, k, x)' => Answered(t, k, x)
  BY <1>2 DEF OthersSame, SameJob, Exchanging, Bringing, Answered
<1>7. \A x \in Nat \ {0} : Knows(t, x)' => Knows(t, x)
  BY <1>1, <1>6 DEF Knows
<1>8. upset' \/ \A p \in SUBSET Tab : \A x \in Nat \ {0} : p = Place(t) => ~Kept(p, x)'
  <2> SUFFICES ASSUME NEW p \in SUBSET Tab, NEW x \in Nat \ {0}, p = Place(t), Kept(p, x)'
               PROVE  upset'
    OBVIOUS
  <2>1. StoreOf(t).refresh = x
    BY <1>0, <1>5, PlaceIsKept
  <2>. QED BY <1>1, <2>1
<1>9. ~Storing(t)'
  BY <1>0, <1>1, <1>2 DEF Storing, LoginAlone, Job, OthersSame, SameJob, Early
<1>10. upset => upset'
  BY <1>1
<1>11. \A u \in Tab : u # t => /\ cache'[u] = cache[u] /\ page'[u] = page[u]
                               /\ mode'[u] = mode[u]
  BY <1>0, <1>1 DEF Shaped
<1>12. Quiet(t, Page)
  BY <1>1, <1>2, <1>5, <1>6, <1>7, <1>8, <1>9, <1>10, <1>11 DEF Quiet
<1>. QED BY <1>0, <1>3, <1>4, <1>12, QuietKeeps

\* The device of a login is verified: the tokens are stored, and stay.
LEMMA LoginEndsKeeps ==
  ASSUME Inv, NEW t \in Tab, LoginEnds(t)
  PROVE  Inv'
<1>0. Shaped /\ LoginAlone /\ Page \in Job
  BY DEF Inv, Job
<1>1. /\ job[t][Page].at = "verifying" /\ job' = [job EXCEPT ![t][Page] = Idle]
      /\ UNCHANGED <<local, flag, session, mode, cache, semaphore, live, issued, upset, taken>>
  BY DEF LoginEnds, server, history
<1>2. PICK p \in {"chat", "form"} : page' = [page EXCEPT ![t] = p]
  BY DEF LoginEnds
<1>3. /\ job' \in [Tab -> [Job -> Jobs]] /\ OthersSame(t, Page)
      /\ job'[t][Page].at = "idle"
  BY <1>0, <1>1 DEF Shaped, Jobs, At, Idle, OthersSame, SameJob
<1>4. /\ page' \in [Tab -> Views] /\ page'[t] = p
      /\ \A u \in Tab : u # t => page'[u] = page[u]
  BY <1>0, <1>2 DEF Shaped, Views
<1>5. Shaped'
  BY <1>0, <1>1, <1>3, <1>4 DEF Shaped
<1>6. page[t] \in {"login", "register"}
  BY <1>0, <1>1 DEF LoginAlone
<1>7. LoginAlone'
  BY <1>0, <1>3, <1>4, <1>6, AloneAfter DEF Early
<1>8. \A q, x : Kept(q, x)' <=> Kept(q, x)
  BY <1>1 DEF Kept
<1>9. \A k \in Job : \A x \in Nat : /\ Exchanging(t, k, x)' => Exchanging(t, k, x)
                                    /\ Bringing(t, k, x)' => Bringing(t, k, x)
                                    /\ Answered(t, k, x)' => Answered(t, k, x)
  BY <1>3 DEF OthersSame, SameJob, Exchanging, Bringing, Answered
<1>10. \A x \in Nat \ {0} : Knows(t, x)' => Knows(t, x)
  BY <1>1, <1>9 DEF Knows
<1>11. ~Storing(t) /\ ~Storing(t)' /\ ~Replaces(t)
  BY <1>0, <1>1, <1>3, <1>6 DEF Storing, Replaces, LoginAlone, Early, Job, OthersSame, SameJob
<1>12. Quiet(t, Page)
  BY <1>1, <1>3, <1>4, <1>8, <1>9, <1>10, <1>11 DEF Quiet
<1>. QED BY <1>0, <1>5, <1>7, <1>12, QuietKeeps

\* What is written to the store of tab t.
LEMMA SetItemsEffect ==
  ASSUME Shaped, NEW t \in Tab, NEW s \in Tokens, SetItems(t, s)
  PROVE  /\ local' \in Tokens /\ session' \in [Tab -> Tokens]
         /\ \A p \in SUBSET Tab : \A x :
                Kept(p, x)' <=> IF p = Place(t) THEN x = s.refresh ELSE Kept(p, x)
<1>1. CASE mode[t] = "session"
  BY <1>1 DEF SetItems, Place, Kept, Shaped
<1>2. CASE mode[t] # "session"
  BY <1>2 DEF SetItems, Place, Kept, Shaped
<1>. QED BY <1>1, <1>2

\* Storing the access token moves a job on and changes no refresh token.
LEMMA StoreAccessKeeps ==
  ASSUME Inv, NEW t \in Tab, NEW j \in Job, StoreAccess(t, j)
  PROVE  Inv'
<1>0. Shaped /\ LoginAlone
  BY DEF Inv
<1>1. /\ job[t][j].at = "answered"
      /\ SetItems(t, [StoreOf(t) EXCEPT !.access = TRUE])
      /\ cache' = [cache EXCEPT ![t].access = TRUE]
      /\ job' = [job EXCEPT ![t][j].at = "storing"]
      /\ UNCHANGED <<flag, mode, page, semaphore, live, issued, upset, taken>>
  BY DEF StoreAccess, server, history
<1>2. /\ job' \in [Tab -> [Job -> Jobs]] /\ OthersSame(t, j)
      /\ job'[t][j].at = "storing" /\ job'[t][j].token = job[t][j].token
  BY <1>0, <1>1, MovedJob DEF At
<1>3. StoreOf(t) \in Tokens /\ cache[t] \in Tokens
  BY <1>0, PlaceIsKept DEF Shaped
<1>4. /\ [StoreOf(t) EXCEPT !.access = TRUE] \in Tokens
      /\ [StoreOf(t) EXCEPT !.access = TRUE].refresh = StoreOf(t).refresh
      /\ [cache[t] EXCEPT !.access = TRUE] \in Tokens
      /\ [cache[t] EXCEPT !.access = TRUE].refresh = cache[t].refresh
  BY <1>3 DEF Tokens
<1>5. /\ local' \in Tokens /\ session' \in [Tab -> Tokens]
      /\ \A p \in SUBSET Tab : \A x :
             Kept(p, x)' <=> IF p = Place(t) THEN x = StoreOf(t).refresh ELSE Kept(p, x)
  BY <1>0, <1>1, <1>4, SetItemsEffect
<1>6. \A p \in SUBSET Tab : \A x : Kept(p, x)' <=> Kept(p, x)
  BY <1>0, <1>5, PlaceIsKept
<1>7. /\ cache' \in [Tab -> Tokens] /\ cache'[t].refresh = cache[t].refresh
      /\ \A u \in Tab : u # t => cache'[u] = cache[u]
  BY <1>0, <1>1, <1>4 DEF Shaped
<1>8. Shaped'
  BY <1>0, <1>1, <1>2, <1>5, <1>7 DEF Shaped, Jobs, At
<1>9. j \in Request => page[t] \notin Early
  BY <1>0, <1>1 DEF LoginAlone
<1>10. LoginAlone'
  BY <1>0, <1>1, <1>2, <1>9, AloneAfter DEF Job
<1>11. \A k \in Job : \A x \in Nat : /\ Exchanging(t, k, x)' => Exchanging(t, k, x)
                                     /\ Bringing(t, k, x)' => Bringing(t, k, x)
                                     /\ Answered(t, k, x)' => Answered(t, k, x)
  BY <1>1, <1>2 DEF OthersSame, SameJob, Exchanging, Bringing, Answered
<1>12. \A x \in Nat \ {0} : Knows(t, x)' => Knows(t, x)
  BY <1>7, <1>11 DEF Knows
<1>13. Replaces(t) => Replaces(t)'
  BY <1>2 DEF Storing, Replaces
<1>14. Quiet(t, j)
  BY <1>1, <1>2, <1>6, <1>7, <1>11, <1>12, <1>13 DEF Quiet
<1>. QED BY <1>8, <1>10, <1>14, QuietKeeps

-----------------------------------------------------------------------------
(* Steps that issue a token.                                               *)

\* A job of tab t is answered with a new token.  The tokens revoked, if any,
\* are known to the tab, and whoever stores them has the tab to replace them.
LEMMA IssueKeeps ==
  ASSUME Inv, NEW t \in Tab, NEW j \in Job, NEW S \in SUBSET Nat,
         job[t][j].at \in {"posted", "found"},
         j \in Request => page[t] \notin Early,
         \A x \in S \ {0} : Knows(t, x) /\ page[t] # "register",
         issued' = issued + 1, live' = (live \ S) \union {issued + 1},
         job' = [job EXCEPT ![t][j] = [at |-> "answered", token |-> issued + 1]],
         UNCHANGED <<pages, semaphore, upset, taken>>
  PROVE  Inv'
<1>0. /\ Shaped /\ LoginAlone /\ KeptApart /\ KnownIssued /\ AnsweredIssued /\ BroughtNew
      /\ KeptLive
      /\ issued \in Nat
  BY DEF Inv, Shaped
<1>1. UNCHANGED <<local, flag, session, mode, cache, page, upset, taken>>
  BY DEF pages
<1>2. /\ job' \in [Tab -> [Job -> Jobs]] /\ OthersSame(t, j)
      /\ job'[t][j].at = "answered" /\ job'[t][j].token = issued + 1
  BY <1>0 DEF Shaped, Jobs, At, OthersSame, SameJob
<1>3. Shaped'
  BY <1>0, <1>1, <1>2 DEF Shaped, Jobs, At
<1>4. LoginAlone'
  BY <1>0, <1>1, <1>2, AloneAfter DEF Job, LoginAlone
<1>5. \A p, x : Kept(p, x)' <=> Kept(p, x)
  BY <1>1 DEF Kept
<1>6. /\ \A u \in Tab : \A k \in Job : \A x \in Nat : Exchanging(u, k, x)' => Exchanging(u, k, x)
      /\ \A u \in Tab : \A x \in Nat : Knows(u, x)' => Knows(u, x)
  BY <1>1, <1>2 DEF OthersSame, SameJob, Exchanging, Knows
<1>7. \A u \in Tab : \A k \in Job : \A x \in Nat :
         Bringing(u, k, x)' =>
             IF u = t /\ k = j THEN x = issued + 1 ELSE Bringing(u, k, x) /\ x # issued + 1
  <2>1. \A u \in Tab : \A k \in Job : \A x \in Nat : Bringing(u, k, x) => x \in 1 .. issued
    BY <1>0 DEF AnsweredIssued, Answered
  <2>. QED BY <1>0, <1>2, <2>1 DEF OthersSame, SameJob, Bringing
<1>8. \A u \in Tab : Replaces(u) => Replaces(u)'
  <2>1. ASSUME NEW u \in Tab, Storing(u) PROVE Storing(u)'
    BY <1>0, <1>2, <2>1 DEF Storing, OthersSame, SameJob
  <2>2. ASSUME NEW u \in Tab, job[u][Page].at = "posted" PROVE Storing(u)' \/ job'[u][Page].at = "posted"
    BY <1>0, <1>2, <2>2 DEF Storing, OthersSame, SameJob, Job
  <2>. QED BY <1>1, <2>1, <2>2 DEF Replaces
<1>9. Replaces(t)'
  BY <1>2 DEF Storing, Replaces
<1>10. KeptApart'
  <2>1. \A x \in Nat \ {0} : x <= issued => x <= issued'
    BY <1>0
  <2>. QED BY <1>0, <1>5, <2>1 DEF KeptApart
<1>11. KnownIssued'
  <2>1. \A x \in Nat \ {0} : x <= issued => x <= issued'
    BY <1>0
  <2>. QED BY <1>0, <1>6, <2>1 DEF KnownIssued
<1>a. AnsweredIssued'
  <2> SUFFICES ASSUME NEW u \in Tab, NEW k \in Job, NEW x \in Nat, Answered(u, k, x)'
               PROVE  x \in 1 .. issued'
    BY DEF AnsweredIssued
  <2>1. CASE u = t /\ k = j
    BY <1>0, <1>2, <2>1 DEF Answered, Bringing
  <2>2. CASE ~(u = t /\ k = j)
    <3>1. Answered(u, k, x)
      BY <1>2, <2>2 DEF OthersSame, SameJob, Answered, Bringing
    <3>2. x \in 1 .. issued
      BY <1>0, <3>1 DEF AnsweredIssued
    <3>. QED BY <1>0, <3>2
  <2>. QED BY <2>1, <2>2
<1>12. BroughtNew'
  <2> SUFFICES ASSUME NEW u \in Tab, NEW k \in Job, NEW x \in Nat, Bringing(u, k, x)',
                      x \notin taken'
               PROVE  /\ upset' \/ x \in live'
                      /\ \A p \in SUBSET Tab : ~Kept(p, x)'
                      /\ \A v \in Tab : \A l \in Job : Bringing(v, l, x)' => v = u /\ l = k
                      /\ \A v \in Tab : Knows(v, x)' => v = u /\ page'[u] = "register"
    BY DEF BroughtNew
  <2>1. CASE u = t /\ k = j
    <3>1. x = issued + 1 /\ x \in Nat \ {0} /\ ~(x <= issued)
      BY <1>0, <1>7, <2>1
    <3>2. \A v \in Tab : ~Knows(v, x)'
      BY <1>0, <1>6, <3>1 DEF KnownIssued
    <3>3. \A p \in SUBSET Tab : ~Kept(p, x)'
      BY <1>0, <1>5, <3>1 DEF KeptApart
    <3>4. \A v \in Tab : \A l \in Job : Bringing(v, l, x)' => v = u /\ l = k
      BY <1>7, <2>1, <3>1
    <3>. QED BY <1>0, <3>1, <3>2, <3>3, <3>4
  <2>2. CASE ~(u = t /\ k = j)
    <3>1. Bringing(u, k, x) /\ x # issued + 1 /\ x \notin taken
      BY <1>1, <1>7, <2>2
    <3>2. /\ x \in 1 .. issued
          /\ upset \/ x \in live
          /\ \A p \in SUBSET Tab : ~Kept(p, x)
          /\ \A v \in Tab : \A l \in Job : Bringing(v, l, x) => v = u /\ l = k
          /\ \A v \in Tab : Knows(v, x) => v = u /\ page[u] = "register"
      BY <1>0, <3>1 DEF BroughtNew, AnsweredIssued, Answered
    <3>3. x \in 1 .. issued' /\ x # 0
      BY <1>0, <3>2
    <3>4. x \notin S
      BY <3>2, <3>3
    <3>5. upset' \/ x \in live'
      BY <1>1, <3>2, <3>4
    <3>6. \A v \in Tab : \A l \in Job : Bringing(v, l, x)' => v = u /\ l = k
      BY <1>7, <3>1, <3>2
    <3>7. \A v \in Tab : Knows(v, x)' => v = u /\ page'[u] = "register"
      BY <1>1, <1>6, <3>2
    <3>. QED BY <1>5, <3>2, <3>3, <3>5, <3>6, <3>7
  <2>. QED BY <2>1, <2>2
<1>13. KeptLive'
  <2> SUFFICES ASSUME ~upset', taken' = {}, NEW p \in SUBSET Tab, NEW x \in Nat \ {0}, Kept(p, x)'
               PROVE  \/ Replacing(p)'
                      \/ x \in live' /\ \A u \in Tab : Knows(u, x)' => Place(u)' = p
    BY DEF KeptLive
  <2>1. ~upset /\ taken = {} /\ Kept(p, x)
    BY <1>1, <1>5
  <2>2. \A u \in Tab : Place(u)' = Place(u)
    BY <1>1 DEF Place
  <2>3. CASE Replacing(p)
    BY <1>1, <1>8, <2>2, <2>3 DEF Replacing
  <2>4. CASE ~Replacing(p)
    <3>1. x \in live /\ \A u \in Tab : Knows(u, x) => Place(u) = p
      BY <1>0, <2>1, <2>4 DEF KeptLive
    <3>2. CASE x \in S
      <4>1. Place(t) = p
        BY <3>1, <3>2
      <4>. QED BY <1>9, <2>2, <4>1 DEF Replacing
    <3>3. CASE x \notin S
      BY <1>6, <2>2, <3>1, <3>3
    <3>. QED BY <3>2, <3>3
  <2>. QED BY <2>3, <2>4
<1>. QED BY <1>3, <1>4, <1>10, <1>11, <1>a, <1>12, <1>13 DEF Inv

\* A login on the server issues a new token and revokes none.
LEMMA AuthenticateKeeps ==
  ASSUME Inv, NEW t \in Tab, Authenticate(t)
  PROVE  Inv'
<1>1. Page \in Job /\ Page \notin Request
  BY NamesApart DEF Job
<1>2. /\ job[t][Page].at = "posted" /\ issued' = issued + 1
      /\ live' = (live \ {}) \union {issued + 1}
      /\ job' = [job EXCEPT ![t][Page] = [at |-> "answered", token |-> issued + 1]]
      /\ UNCHANGED <<pages, semaphore, upset, taken>>
  BY DEF Authenticate, history
<1>3. {} \in SUBSET Nat /\ \A x \in {} \ {0} : Knows(t, x) /\ page[t] # "register"
  OBVIOUS
<1>. QED BY <1>1, <1>2, <1>3, IssueKeeps

\* The rotation exchanges a known token for a new one: the job that brings
\* it also replaces the old one at the place where it is kept.
LEMMA RotateKeeps ==
  ASSUME Inv, NEW t \in Tab, NEW j \in Job, Rotate(t, j)
  PROVE  Inv'
<1>0. Shaped /\ LoginAlone
  BY DEF Inv
<1>1. /\ job[t][j].at = "found" /\ issued' = issued + 1
      /\ live' = (live \ {job[t][j].token}) \union {issued + 1}
      /\ job' = [job EXCEPT ![t][j] = [at |-> "answered", token |-> issued + 1]]
      /\ UNCHANGED <<pages, semaphore, upset, taken>>
  BY DEF Rotate, Revoked, history
<1>2. job[t][j].token \in Nat
  BY <1>0 DEF Shaped, Jobs
<1>3. j \in Request => page[t] \notin Early
  BY <1>0, <1>1 DEF LoginAlone
<1>4. page[t] # "register"
  BY <1>0, <1>1, <1>3 DEF LoginAlone, Job, Early
<1>5. PICK S \in SUBSET Nat : S = {job[t][j].token}
  BY <1>2
<1>6. \A x \in S \ {0} : Knows(t, x) /\ page[t] # "register"
  BY <1>1, <1>4, <1>5 DEF Knows, Exchanging
<1>7. live' = (live \ S) \union {issued + 1} /\ job[t][j].at \in {"posted", "found"}
  BY <1>1, <1>5
<1>. QED BY <1>1, <1>3, <1>6, <1>7, IssueKeeps

\* The call of a page that is gone: what it has exchanged is noted.
LEMMA RotateOrphanKeeps ==
  ASSUME Inv, NEW token \in orphans, RotateOrphan(token)
  PROVE  Inv'
<1>0. /\ Shaped /\ LoginAlone /\ KeptApart /\ KnownIssued /\ AnsweredIssued /\ BroughtNew
      /\ KeptLive
      /\ issued \in Nat
  BY DEF Inv, Shaped
<1>1. UNCHANGED <<local, flag, session, mode, cache, page, job, semaphore, taken>>
  BY DEF RotateOrphan, pages
<1>2. \/ /\ issued' = issued + 1 /\ live' = Revoked(token) \union {issued + 1} /\ upset' = TRUE
      \/ UNCHANGED <<live, issued, upset>>
  BY DEF RotateOrphan
<1>3. Shaped'
  <2>1. live' \subseteq Nat /\ issued' \in Nat /\ upset' \in BOOLEAN
    <3>1. live \subseteq Nat /\ upset \in BOOLEAN /\ Revoked(token) \subseteq live
      BY <1>0 DEF Shaped, Revoked
    <3>2. issued + 1 \in Nat
      BY <1>0
    <3>. QED BY <1>0, <1>2, <3>1, <3>2
  <2>. QED BY <1>0, <1>1, <2>1 DEF Shaped
<1>4. /\ \A p, x : Kept(p, x)' <=> Kept(p, x)
      /\ \A u, x : Knows(u, x)' <=> Knows(u, x)
      /\ \A u, k, x : Bringing(u, k, x)' <=> Bringing(u, k, x)
      /\ \A u, k, x : Answered(u, k, x)' <=> Answered(u, k, x)
      /\ \A p : Replacing(p)' <=> Replacing(p)
      /\ \A u : Place(u)' = Place(u)
  BY <1>1 DEF Kept, Knows, Bringing, Answered, Replacing, Replaces, Exchanging, Place, Storing
<1>5. \A x \in Nat : x <= issued => x <= issued'
  BY <1>0, <1>2
<1>6. LoginAlone'
  BY <1>0, <1>1 DEF LoginAlone
<1>7. KeptApart' /\ KnownIssued'
  BY <1>0, <1>1, <1>4, <1>5 DEF KeptApart, KnownIssued
<1>a. AnsweredIssued'
  <2>1. \A x \in Nat : x \in 1 .. issued => x \in 1 .. issued'
    BY <1>0, <1>2
  <2>. QED BY <1>0, <1>4, <2>1 DEF AnsweredIssued
<1>8. BroughtNew'
  <2>2. \A x \in Nat : upset \/ x \in live => upset' \/ x \in live'
    BY <1>2
  <2>. QED BY <1>0, <1>1, <1>4, <2>2 DEF BroughtNew, AnsweredIssued, Answered
<1>9. KeptLive'
  BY <1>0, <1>1, <1>2, <1>4 DEF KeptLive
<1>. QED BY <1>3, <1>6, <1>7, <1>a, <1>8, <1>9 DEF Inv

-----------------------------------------------------------------------------
(* Steps that store a token, move it, or load a page.                      *)

\* Storing the refresh token ends the replacement: the new token takes the
\* place of the old one, in the store and in the cache of the tab.
LEMMA StoreRefreshKeeps ==
  ASSUME Inv, NEW t \in Tab, NEW j \in Job, StoreRefresh(t, j)
  PROVE  Inv'
<1>0. /\ Shaped /\ LoginAlone /\ KeptApart /\ KnownIssued /\ AnsweredIssued /\ BroughtNew
      /\ KeptLive
      /\ issued \in Nat
  BY DEF Inv, Shaped
<1>1. PICK y \in Nat : y = job[t][j].token
  BY <1>0 DEF Shaped, Jobs
<1>2. /\ job[t][j].at = "storing"
      /\ SetItems(t, [StoreOf(t) EXCEPT !.refresh = y])
      /\ cache' = [cache EXCEPT ![t].refresh = y]
      /\ IF j # Page
         THEN Release(t, j) /\ UNCHANGED page
         ELSE /\ UNCHANGED semaphore
              /\ IF page[t] \in {"login", "register"}
                 THEN job' = [job EXCEPT ![t][j].at = "verifying"] /\ UNCHANGED page
                 ELSE /\ job' = [job EXCEPT ![t][j] = Idle]
                      /\ page' = [page EXCEPT ![t] = IF @ = "auto" THEN "chat" ELSE @]
      /\ UNCHANGED <<flag, mode, live, issued, upset, taken>>
  BY <1>1 DEF StoreRefresh, server, history
<1>3. Bringing(t, j, y)
  BY <1>1, <1>2 DEF Bringing
<1>4. y \notin taken =>
         /\ upset \/ y \in live
         /\ \A p \in SUBSET Tab : ~Kept(p, y)
         /\ \A u \in Tab : \A k \in Job : Bringing(u, k, y) => u = t /\ k = j
         /\ \A u \in Tab : Knows(u, y) => u = t /\ page[t] = "register"
  BY <1>0, <1>3 DEF BroughtNew
<1>a. y \in 1 .. issued
  BY <1>0, <1>3 DEF AnsweredIssued, Answered
<1>5. y \in Nat \ {0} /\ y <= issued
  BY <1>0, <1>a
<1>6. StoreOf(t) \in Tokens /\ cache[t] \in Tokens /\ Place(t) \in SUBSET Tab
  BY <1>0, PlaceIsKept DEF Shaped
<1>7. /\ [StoreOf(t) EXCEPT !.refresh = y] \in Tokens
      /\ [StoreOf(t) EXCEPT !.refresh = y].refresh = y
      /\ [cache[t] EXCEPT !.refresh = y] \in Tokens
      /\ [cache[t] EXCEPT !.refresh = y].refresh = y
  BY <1>6 DEF Tokens
<1>8. /\ local' \in Tokens /\ session' \in [Tab -> Tokens]
      /\ \A p \in SUBSET Tab : \A x :
             Kept(p, x)' <=> IF p = Place(t) THEN x = y ELSE Kept(p, x)
  BY <1>0, <1>2, <1>7, SetItemsEffect
<1>9. /\ cache' \in [Tab -> Tokens] /\ cache'[t].refresh = y
      /\ \A u \in Tab : u # t => cache'[u] = cache[u]
  BY <1>0, <1>2, <1>7 DEF Shaped
<1>10. /\ job' \in [Tab -> [Job -> Jobs]] /\ semaphore' \in [Tab -> Request \union {Free}]
       /\ job'[t][j].at \in {"idle", "woken", "verifying"} /\ OthersSame(t, j)
       /\ job'[t][j].at = "verifying" =>
              /\ job'[t][j].token = y /\ j = Page /\ page[t] \in {"login", "register"}
              /\ page' = page
       /\ job'[t][j].at = "woken" => j # Page
       /\ j = Page /\ page[t] \in {"login", "register"} => job'[t][j].at = "verifying"
  <2>1. CASE j = Page /\ page[t] \notin {"login", "register"}
    <3>1. job' = [job EXCEPT ![t][j] = Idle] /\ UNCHANGED semaphore
      BY <1>2, <2>1
    <3>2. Idle \in Jobs /\ Idle.at = "idle"
      BY DEF Idle, Jobs, At
    <3>. QED BY <1>0, <2>1, <3>1, <3>2 DEF Shaped, Jobs, At, OthersSame, SameJob
  <2>2. CASE j # Page
    BY <1>0, <1>2, <2>2, ReleaseEffect
  <2>3. CASE j = Page /\ page[t] \in {"login", "register"}
    <3>1. job' = [job EXCEPT ![t][j].at = "verifying"] /\ UNCHANGED <<semaphore, page>>
      BY <1>2, <2>3
    <3>2. /\ job' \in [Tab -> [Job -> Jobs]] /\ OthersSame(t, j)
          /\ job'[t][j].at = "verifying" /\ job'[t][j].token = job[t][j].token
      BY <1>0, <3>1, MovedJob DEF At
    <3>3. semaphore' \in [Tab -> Request \union {Free}]
      BY <1>0, <3>1 DEF Shaped
    <3>. QED BY <1>1, <2>3, <3>1, <3>2, <3>3
  <2>. QED BY <2>1, <2>2, <2>3
<1>11. /\ page' \in [Tab -> Views]
       /\ \A u \in Tab : u # t => page'[u] = page[u]
       /\ page'[t] \in Early => page'[t] = page[t]
       /\ page[t] \in {"login", "register"} => page'[t] = page[t]
       /\ j # Page => page'[t] = page[t]
  BY <1>0, <1>2 DEF Shaped, Views, Early
<1>12. Shaped'
  BY <1>0, <1>2, <1>8, <1>9, <1>10, <1>11 DEF Shaped, Jobs, At
<1>13. j # Page => page[t] \notin Early
  BY <1>0, <1>2 DEF LoginAlone, Job
<1>14. j = Page => /\ page'[t] \in {"login", "register"} => job'[t][Page].at = "verifying"
                   /\ job'[t][Page].at = "verifying" => page'[t] \in {"login", "register"}
  BY <1>10, <1>11 DEF Early
<1>15. LoginAlone'
  BY <1>0, <1>10, <1>11, <1>13, <1>14, AloneAfter
<1>16. /\ \A u \in Tab : \A k \in Job : \A x \in Nat :
              Exchanging(u, k, x)' => Exchanging(u, k, x)
       /\ \A u \in Tab : \A k \in Job : \A x \in Nat :
              Bringing(u, k, x)' => Bringing(u, k, x) /\ <<u, k>> # <<t, j>>
  BY <1>10 DEF OthersSame, SameJob, Exchanging, Bringing
<1>17. \A u \in Tab : \A x \in Nat :
          Knows(u, x)' => Knows(u, x) \/ (u = t /\ x = y)
  BY <1>9, <1>16 DEF Knows
<1>18. \A u \in Tab : \A k \in Job : \A x \in Nat :
          Bringing(u, k, x)' /\ x \notin taken => x # y
  BY <1>4, <1>16
<1>19. KeptApart'
  <2> SUFFICES ASSUME NEW p \in SUBSET Tab, NEW x \in Nat \ {0}, Kept(p, x)'
               PROVE  /\ x <= issued'
                      /\ x \in taken' \/ \A q \in SUBSET Tab : Kept(q, x)' => p = q
    BY DEF KeptApart
  <2>1. CASE x = y
    BY <1>2, <1>4, <1>5, <1>8, <2>1
  <2>2. CASE x # y
    BY <1>0, <1>2, <1>8, <2>2 DEF KeptApart
  <2>. QED BY <2>1, <2>2
<1>20. KnownIssued'
  BY <1>0, <1>2, <1>5, <1>17 DEF KnownIssued
<1>b. AnsweredIssued'
  <2> SUFFICES ASSUME NEW u \in Tab, NEW k \in Job, NEW x \in Nat, Answered(u, k, x)'
               PROVE  x \in 1 .. issued
    BY <1>2 DEF AnsweredIssued
  <2>1. CASE u = t /\ k = j
    BY <1>10, <1>a, <2>1 DEF Answered, Bringing
  <2>2. CASE ~(u = t /\ k = j)
    <3>1. Answered(u, k, x)
      BY <1>10, <2>2 DEF OthersSame, SameJob, Answered, Bringing
    <3>. QED BY <1>0, <3>1 DEF AnsweredIssued
  <2>. QED BY <2>1, <2>2
<1>21. BroughtNew'
  <2> SUFFICES ASSUME NEW u \in Tab, NEW k \in Job, NEW x \in Nat, Bringing(u, k, x)',
                      x \notin taken'
               PROVE  /\ upset' \/ x \in live'
                      /\ \A p \in SUBSET Tab : ~Kept(p, x)'
                      /\ \A v \in Tab : \A l \in Job : Bringing(v, l, x)' => v = u /\ l = k
                      /\ \A v \in Tab : Knows(v, x)' => v = u /\ page'[u] = "register"
    BY DEF BroughtNew
  <2>1. Bringing(u, k, x) /\ x \notin taken /\ x # y /\ <<u, k>> # <<t, j>>
    BY <1>2, <1>16, <1>18
  <2>2. /\ x \in 1 .. issued
        /\ upset \/ x \in live
        /\ \A p \in SUBSET Tab : ~Kept(p, x)
        /\ \A v \in Tab : \A l \in Job : Bringing(v, l, x) => v = u /\ l = k
        /\ \A v \in Tab : Knows(v, x) => v = u /\ page[u] = "register"
    BY <1>0, <2>1 DEF BroughtNew, AnsweredIssued, Answered
  <2>3. page[u] = "register" => page'[u] = "register"
    BY <1>11
  <2>4. \A v \in Tab : Knows(v, x)' => v = u /\ page'[u] = "register"
    BY <1>11, <1>17, <2>1, <2>2, <2>3
  <2>5. upset' \/ x \in live'
    BY <1>2, <2>2
  <2>6. \A p \in SUBSET Tab : ~Kept(p, x)'
    BY <1>8, <2>1, <2>2
  <2>7. \A v \in Tab : \A l \in Job : Bringing(v, l, x)' => v = u /\ l = k
    BY <1>16, <2>2
  <2>. QED BY <2>4, <2>5, <2>6, <2>7
<1>22. KeptLive'
  <2> SUFFICES ASSUME ~upset', taken' = {}, NEW p \in SUBSET Tab, NEW x \in Nat \ {0}, Kept(p, x)'
               PROVE  \/ Replacing(p)'
                      \/ x \in live' /\ \A u \in Tab : Knows(u, x)' => Place(u)' = p
    BY DEF KeptLive
  <2>1. ~upset /\ taken = {} /\ \A u \in Tab : Place(u)' = Place(u)
    BY <1>2 DEF Place
  <2>2. CASE p = Place(t)
    <3>1. x = y
      BY <1>8, <2>2
    <3>2. \A u \in Tab : Knows(u, x)' => u = t
      BY <1>4, <1>17, <2>1, <3>1
    <3>. QED BY <1>2, <1>4, <2>1, <2>2, <3>1, <3>2
  <2>3. CASE p # Place(t)
    <3>1. Kept(p, x) /\ x # y
      BY <1>4, <1>8, <2>1, <2>3
    <3>2. CASE Replacing(p)
      <4>1. PICK u \in Tab : Place(u) = p /\ Replaces(u)
        BY <3>2 DEF Replacing
      <4>2. u # t
        BY <2>3, <4>1
      <4>3. Replaces(u)'
        <5>1. \A k \in Job : job[u][k].at \in {"posted", "answered", "storing"} =>
                 job'[u][k].at = job[u][k].at
          BY <1>10, <4>2 DEF OthersSame, SameJob
        <5>2. page'[u] = page[u] /\ Page \in Job
          BY <1>11, <4>2 DEF Job
        <5>. QED BY <4>1, <5>1, <5>2 DEF Storing, Replaces
      <4>. QED BY <2>1, <4>1, <4>3 DEF Replacing
    <3>3. CASE ~Replacing(p)
      <4>1. x \in live /\ \A u \in Tab : Knows(u, x) => Place(u) = p
        BY <1>0, <2>1, <3>1, <3>3 DEF KeptLive
      <4>. QED BY <1>2, <1>17, <2>1, <3>1, <4>1
    <3>. QED BY <3>2, <3>3
  <2>. QED BY <2>2, <2>3
<1>. QED BY <1>12, <1>15, <1>19, <1>20, <1>b, <1>21, <1>22 DEF Inv

\* After a login of an unknown device the stores are cleared and the tokens on
\* their way again: known to no other tab, unless it has taken them.
LEMMA StaleDeviceKeeps ==
  ASSUME Inv, NEW t \in Tab, StaleDevice(t)
  PROVE  Inv'
<1>0. /\ Shaped /\ LoginAlone /\ KeptApart /\ KnownIssued /\ AnsweredIssued /\ BroughtNew
      /\ KeptLive
      /\ issued \in Nat /\ Page \in Job
  BY DEF Inv, Shaped, Job
<1>1. PICK y \in Nat : y = job[t][Page].token
  BY <1>0 DEF Shaped, Jobs
<1>2. /\ page[t] = "login" /\ job[t][Page].at = "verifying"
      /\ ClearAuthData(t)
      /\ page' = [page EXCEPT ![t] = "register"]
      /\ job' = [job EXCEPT ![t][Page].at = "answered"]
      /\ taken' = IF HasTaken(t, y) THEN taken \union {y} ELSE taken
      /\ UNCHANGED <<cache, semaphore, live, issued, upset>>
  BY <1>1 DEF StaleDevice, server
<1>3. /\ local' \in Tokens /\ session' \in [Tab -> Tokens] /\ flag' = "none"
      /\ mode' \in [Tab -> {"local", "session"}]
      /\ \A u \in Tab : u # t => mode'[u] = mode[u]
      /\ \A p \in SUBSET Tab : \A x \in Nat \ {0} : Kept(p, x)' => Kept(p, x)
      /\ \A x \in Nat \ {0} : ~Kept({}, x)' /\ ~Kept({t}, x)'
  BY <1>0, <1>2, ClearEffect
<1>4. /\ job' \in [Tab -> [Job -> Jobs]] /\ OthersSame(t, Page)
      /\ job'[t][Page].at = "answered" /\ job'[t][Page].token = y
  BY <1>0, <1>1, <1>2, MovedJob DEF At
<1>5. /\ page' \in [Tab -> Views] /\ page'[t] = "register"
      /\ \A u \in Tab : u # t => page'[u] = page[u]
  BY <1>0, <1>2 DEF Shaped, Views
<1>6. Shaped'
  BY <1>0, <1>2, <1>3, <1>4, <1>5 DEF Shaped
<1>7. LoginAlone'
  BY <1>0, <1>2, <1>4, <1>5, AloneAfter DEF Early
<1>8. \A r \in Request : job[t][r].at = "idle"
  BY <1>0, <1>2 DEF LoginAlone, Early
<1>9. y \in 1 .. issued /\ y \in Nat \ {0} /\ taken \subseteq taken'
  <2>1. y \in 1 .. issued
    BY <1>0, <1>1, <1>2 DEF AnsweredIssued, Answered
  <2>. QED BY <1>0, <1>2, <2>1
<1>10. \A u \in Tab : \A k \in Job : \A x \in Nat :
          /\ Exchanging(u, k, x)' => Exchanging(u, k, x)
          /\ Bringing(u, k, x)' => IF u = t THEN k = Page /\ x = y ELSE Bringing(u, k, x)
          /\ Answered(u, k, x)' => Answered(u, k, x)
  <2>1. \A k \in Job : k # Page => job'[t][k].at = "idle"
    BY <1>4, <1>8 DEF OthersSame, SameJob, Job
  <2>2. \A u \in Tab : \A k \in Job : u # t => SameJob(u, k)
    BY <1>4 DEF OthersSame
  <2>. QED BY <1>1, <1>2, <1>4, <2>1, <2>2 DEF SameJob, Exchanging, Bringing, Answered
<1>11. \A u \in Tab : \A x \in Nat : Knows(u, x)' => Knows(u, x)
  BY <1>2, <1>10 DEF Knows
<1>12. KeptApart'
  BY <1>0, <1>2, <1>3, <1>9 DEF KeptApart
<1>13. KnownIssued' /\ AnsweredIssued'
  BY <1>0, <1>2, <1>10, <1>11 DEF KnownIssued, AnsweredIssued
<1>14. y \notin taken' =>
          /\ y \in live
          /\ \A u \in Tab : u # t =>
                /\ session[u].refresh # y /\ ~Knows(u, y)
                /\ \A k \in Job : ~Bringing(u, k, y)
  BY <1>2 DEF HasTaken, Knows, Exchanging, Bringing
<1>15. BroughtNew'
  <2> SUFFICES ASSUME NEW u \in Tab, NEW k \in Job, NEW x \in Nat, Bringing(u, k, x)',
                      x \notin taken'
               PROVE  /\ upset' \/ x \in live'
                      /\ \A p \in SUBSET Tab : ~Kept(p, x)'
                      /\ \A v \in Tab : \A l \in Job : Bringing(v, l, x)' => v = u /\ l = k
                      /\ \A v \in Tab : Knows(v, x)' => v = u /\ page'[u] = "register"
    BY DEF BroughtNew
  <2>1. CASE u = t
    <3>1. k = Page /\ x = y
      BY <1>10, <2>1
    <3>2. ASSUME NEW p \in SUBSET Tab, Kept(p, y)' PROVE FALSE
      <4>1. p # {} /\ p # {t} /\ Kept(p, y)
        BY <1>3, <1>9, <3>2
      <4>. QED BY <1>14, <3>1, <4>1 DEF Kept
    <3>3. \A v \in Tab : \A l \in Job : Bringing(v, l, y)' => v = t /\ l = Page
      BY <1>10, <1>14, <3>1
    <3>4. \A v \in Tab : Knows(v, y)' => v = t
      BY <1>11, <1>14, <3>1
    <3>. QED BY <1>2, <1>5, <1>14, <2>1, <3>1, <3>2, <3>3, <3>4
  <2>2. CASE u # t
    <3>1. Bringing(u, k, x) /\ x \notin taken
      BY <1>9, <1>10, <2>2
    <3>2. /\ upset \/ x \in live
          /\ \A p \in SUBSET Tab : ~Kept(p, x)
          /\ \A v \in Tab : \A l \in Job : Bringing(v, l, x) => v = u /\ l = k
          /\ \A v \in Tab : Knows(v, x) => v = u /\ page[u] = "register"
          /\ x \in 1 .. issued
      BY <1>0, <3>1 DEF BroughtNew, AnsweredIssued, Answered
    <3>3. x # y
      BY <1>14, <2>2, <3>1
    <3>4. x \in Nat \ {0}
      BY <1>0, <3>2
    <3>5. \A v \in Tab : \A l \in Job : Bringing(v, l, x)' => v = u /\ l = k
      BY <1>10, <3>2, <3>3
    <3>. QED BY <1>2, <1>3, <1>5, <1>11, <2>2, <3>2, <3>4, <3>5
  <2>. QED BY <2>1, <2>2
<1>16. KeptLive'
  <2> SUFFICES ASSUME ~upset', taken' = {}, NEW p \in SUBSET Tab, NEW x \in Nat \ {0}, Kept(p, x)'
               PROVE  \/ Replacing(p)'
                      \/ x \in live' /\ \A u \in Tab : Knows(u, x)' => Place(u)' = p
    BY DEF KeptLive
  <2>1. ~upset /\ taken = {} /\ Kept(p, x) /\ p # {} /\ p # {t}
    BY <1>2, <1>3, <1>9
  <2>2. \A u \in Tab : u # t => Place(u)' = Place(u)
    BY <1>3 DEF Place
  <2>3. Place(t) # p
    BY <2>1 DEF Place
  <2>4. CASE Replacing(p)
    <3>1. PICK u \in Tab : Place(u) = p /\ Replaces(u)
      BY <2>4 DEF Replacing
    <3>2. u # t
      BY <2>3, <3>1
    <3>3. Replaces(u)'
      BY <1>4, <1>5, <3>1, <3>2 DEF Storing, Replaces, OthersSame, SameJob, Job
    <3>. QED BY <2>2, <3>1, <3>2, <3>3 DEF Replacing
  <2>5. CASE ~Replacing(p)
    <3>1. x \in live /\ \A u \in Tab : Knows(u, x) => Place(u) = p
      BY <1>0, <2>1, <2>5 DEF KeptLive
    <3>. QED BY <1>2, <1>11, <2>2, <2>3, <3>1
  <2>. QED BY <2>4, <2>5
<1>. QED BY <1>6, <1>7, <1>12, <1>13, <1>15, <1>16 DEF Inv

\* setStorageMode moves the tokens to the store that the tab has from now on.
LEMMA ModeEffect ==
  ASSUME Shaped, NEW t \in Tab, NEW n \in {"local", "session"}, SetStorageMode(t, n)
  PROVE  /\ local' \in Tokens /\ session' \in [Tab -> Tokens] /\ flag' = n
         /\ mode' \in [Tab -> {"local", "session"}]
         /\ \A u \in Tab : u # t => mode'[u] = mode[u]
         /\ \E old, new \in SUBSET Tab :
                /\ old = Place(t) /\ new = Place(t)'
                /\ old # new => \A x \in Nat \ {0} : ~Kept(old, x)'
                /\ \A x \in Nat \ {0} : Kept(new, x)' => Kept(old, x) \/ Kept(new, x)
                /\ \A p \in SUBSET Tab : p # old /\ p # new =>
                       \A x \in Nat \ {0} : Kept(p, x)' => Kept(p, x)
<1>1. /\ mode' = [mode EXCEPT ![t] = n] /\ flag' = n
      /\ IF mode[t] = n THEN UNCHANGED <<local, session>>
         ELSE IF n = "session"
         THEN session' = [session EXCEPT ![t] = Merge(local, @)] /\ local' = Empty
         ELSE local' = Merge(session[t], local) /\ session' = [session EXCEPT ![t] = Empty]
  BY DEF SetStorageMode
<1>2. /\ local \in Tokens /\ session \in [Tab -> Tokens] /\ session[t] \in Tokens
      /\ mode \in [Tab -> {"local", "session"}]
  BY DEF Shaped
<1>3. Empty \in Tokens /\ Empty.refresh = 0
  BY DEF Empty, Tokens
<1>4. \A a, b \in Tokens : /\ Merge(a, b) \in Tokens
                           /\ Merge(a, b).refresh \in {a.refresh, b.refresh}
  <2> SUFFICES ASSUME NEW a \in Tokens, NEW b \in Tokens
               PROVE  Merge(a, b) \in Tokens /\ Merge(a, b).refresh \in {a.refresh, b.refresh}
    OBVIOUS
  <2>1. (a.access \/ b.access) \in BOOLEAN
    BY DEF Tokens
  <2>. QED BY <2>1 DEF Merge, Tokens
<1>5. /\ mode' \in [Tab -> {"local", "session"}]
      /\ \A u \in Tab : u # t => mode'[u] = mode[u]
      /\ mode'[t] = n
  BY <1>1, <1>2
<1>6. CASE mode[t] = n
  <2>1. UNCHANGED <<local, session>> /\ Place(t)' = Place(t) /\ Place(t) \in SUBSET Tab
    BY <1>1, <1>5, <1>6 DEF Place
  <2>2. \A p, x : Kept(p, x)' <=> Kept(p, x)
    BY <2>1 DEF Kept
  <2>. QED BY <1>1, <1>2, <1>5, <2>1, <2>2
<1>7. CASE mode[t] # n /\ n = "session"
  <2>1. session' = [session EXCEPT ![t] = Merge(local, session[t])] /\ local' = Empty
    BY <1>1, <1>7
  <2>2. Place(t) = {} /\ Place(t)' = {t}
    BY <1>5, <1>7 DEF Place
  <2>3. /\ \A x \in Nat \ {0} : ~Kept({}, x)'
        /\ \A x \in Nat \ {0} : Kept({t}, x)' => Kept({}, x) \/ Kept({t}, x)
        /\ \A p \in SUBSET Tab : p # {} /\ p # {t} =>
               \A x \in Nat \ {0} : Kept(p, x)' => Kept(p, x)
    BY <1>2, <1>3, <1>4, <2>1 DEF Kept
  <2>4. local' \in Tokens /\ session' \in [Tab -> Tokens]
    BY <1>2, <1>3, <1>4, <2>1
  <2>5. {} \in SUBSET Tab /\ {t} \in SUBSET Tab
    OBVIOUS
  <2>. QED BY <1>1, <1>5, <2>2, <2>3, <2>4, <2>5
<1>8. CASE mode[t] # n /\ n = "local"
  <2>1. local' = Merge(session[t], local) /\ session' = [session EXCEPT ![t] = Empty]
    BY <1>1, <1>8
  <2>2. Place(t) = {t} /\ Place(t)' = {}
    BY <1>2, <1>5, <1>8 DEF Place
  <2>3. /\ \A x \in Nat \ {0} : ~Kept({t}, x)'
        /\ \A x \in Nat \ {0} : Kept({}, x)' => Kept({}, x) \/ Kept({t}, x)
        /\ \A p \in SUBSET Tab : p # {} /\ p # {t} =>
               \A x \in Nat \ {0} : Kept(p, x)' => Kept(p, x)
    BY <1>2, <1>3, <1>4, <2>1 DEF Kept
  <2>4. local' \in Tokens /\ session' \in [Tab -> Tokens]
    BY <1>2, <1>3, <1>4, <2>1
  <2>5. {} \in SUBSET Tab /\ {t} \in SUBSET Tab
    OBVIOUS
  <2>. QED BY <1>1, <1>5, <2>2, <2>3, <2>4, <2>5
<1>. QED BY <1>6, <1>7, <1>8

\* A login empties the cache and moves the tokens there are to the store of its
\* mode, where it is about to replace them.
LEMMA LoginKeeps ==
  ASSUME Inv, NEW t \in Tab, Login(t)
  PROVE  Inv'
<1>0. /\ Shaped /\ LoginAlone /\ KeptApart /\ KnownIssued /\ AnsweredIssued /\ BroughtNew
      /\ KeptLive
      /\ issued \in Nat /\ Page \in Job
  BY DEF Inv, Shaped, Job
<1>1. PICK n \in {"local", "session"} : SetStorageMode(t, n)
  BY DEF Login
<1>2. /\ page[t] = "form" /\ job[t][Page] = Idle
      /\ job' = [job EXCEPT ![t][Page] = [at |-> "posted", token |-> 0]]
      /\ page' = [page EXCEPT ![t] = "login"]
      /\ cache' = [cache EXCEPT ![t] = Empty]
      /\ UNCHANGED <<semaphore, live, issued, upset, taken>>
  BY DEF Login, StartJob, server, history
<1>3. /\ local' \in Tokens /\ session' \in [Tab -> Tokens] /\ flag' = n
      /\ mode' \in [Tab -> {"local", "session"}]
      /\ \A u \in Tab : u # t => mode'[u] = mode[u]
  BY <1>0, <1>1, ModeEffect
<1>4. PICK old \in SUBSET Tab, new \in SUBSET Tab :
         /\ old = Place(t) /\ new = Place(t)'
         /\ old # new => \A x \in Nat \ {0} : ~Kept(old, x)'
         /\ \A x \in Nat \ {0} : Kept(new, x)' => Kept(old, x) \/ Kept(new, x)
         /\ \A p \in SUBSET Tab : p # old /\ p # new =>
                \A x \in Nat \ {0} : Kept(p, x)' => Kept(p, x)
  BY <1>0, <1>1, ModeEffect
<1>5. /\ job' \in [Tab -> [Job -> Jobs]] /\ OthersSame(t, Page)
      /\ job'[t][Page].at = "posted" /\ job'[t][Page].token = 0
  BY <1>0, <1>2 DEF Shaped, Jobs, At, OthersSame, SameJob, Idle
<1>6. Empty \in Tokens /\ Empty.refresh = 0
  BY DEF Empty, Tokens
<1>7. /\ page' \in [Tab -> Views]
      /\ page'[t] = "login" /\ \A u \in Tab : u # t => page'[u] = page[u]
      /\ cache' \in [Tab -> Tokens] /\ cache'[t].refresh = 0
      /\ \A u \in Tab : u # t => cache'[u] = cache[u]
  BY <1>0, <1>2, <1>6 DEF Shaped, Views
<1>8. Shaped'
  BY <1>0, <1>2, <1>3, <1>5, <1>7 DEF Shaped, Jobs, At
<1>9. LoginAlone'
  BY <1>0, <1>2, <1>5, <1>7, AloneAfter DEF Early
<1>10. \A j \in Job : job[t][j].at = "idle"
  BY <1>0, <1>2 DEF LoginAlone, Job, Idle, Early
<1>11. /\ \A u \in Tab : \A k \in Job : \A x \in Nat \ {0} :
              Exchanging(u, k, x)' => Exchanging(u, k, x)
       /\ \A k \in Job : \A x \in Nat \ {0} : ~Exchanging(t, k, x)'
       /\ \A u \in Tab : \A k \in Job : \A x \in Nat :
              /\ Bringing(u, k, x)' => Bringing(u, k, x)
              /\ Answered(u, k, x)' => Answered(u, k, x)
  BY <1>5, <1>10 DEF OthersSame, SameJob, Exchanging, Bringing, Answered
<1>12. /\ \A x \in Nat \ {0} : ~Knows(t, x)'
       /\ \A u \in Tab : \A x \in Nat \ {0} : Knows(u, x)' => Knows(u, x)
  BY <1>7, <1>11 DEF Knows
<1>13. \A p \in SUBSET Tab : \A x \in Nat \ {0} :
          Kept(p, x)' => Kept(p, x) \/ (p = new /\ new # old /\ Kept(old, x))
  BY <1>4
<1>14. KeptApart'
  <2> SUFFICES ASSUME NEW p \in SUBSET Tab, NEW x \in Nat \ {0}, Kept(p, x)'
               PROVE  /\ x <= issued'
                      /\ x \in taken' \/ \A q \in SUBSET Tab : Kept(q, x)' => p = q
    BY DEF KeptApart
  <2>1. x <= issued'
    BY <1>0, <1>2, <1>13 DEF KeptApart
  <2>2. ASSUME x \notin taken, NEW q \in SUBSET Tab, Kept(q, x)' PROVE p = q
    <3>1. /\ Kept(p, x) \/ (p = new /\ new # old /\ Kept(old, x))
          /\ Kept(q, x) \/ (q = new /\ new # old /\ Kept(old, x))
      BY <1>13, <2>2
    <3>2. \A a, b \in SUBSET Tab : Kept(a, x) /\ Kept(b, x) => a = b
      BY <1>0, <2>2 DEF KeptApart
    <3>3. new # old => p # old /\ q # old
      BY <1>4, <2>2
    <3>. QED BY <3>1, <3>2, <3>3
  <2>. QED BY <1>2, <2>1, <2>2
<1>15. KnownIssued' /\ AnsweredIssued'
  BY <1>0, <1>2, <1>11, <1>12 DEF KnownIssued, AnsweredIssued
<1>16. BroughtNew'
  <2> SUFFICES ASSUME NEW u \in Tab, NEW k \in Job, NEW x \in Nat, Bringing(u, k, x)',
                      x \notin taken'
               PROVE  /\ upset' \/ x \in live'
                      /\ \A p \in SUBSET Tab : ~Kept(p, x)'
                      /\ \A v \in Tab : \A l \in Job : Bringing(v, l, x)' => v = u /\ l = k
                      /\ \A v \in Tab : Knows(v, x)' => v = u /\ page'[u] = "register"
    BY DEF BroughtNew
  <2>1. Bringing(u, k, x) /\ x \notin taken
    BY <1>2, <1>11
  <2>2. /\ x \in 1 .. issued
        /\ upset \/ x \in live
        /\ \A p \in SUBSET Tab : ~Kept(p, x)
        /\ \A v \in Tab : \A l \in Job : Bringing(v, l, x) => v = u /\ l = k
        /\ \A v \in Tab : Knows(v, x) => v = u /\ page[u] = "register"
    BY <1>0, <2>1 DEF BroughtNew, AnsweredIssued, Answered
  <2>3. x \in Nat \ {0}
    BY <1>0, <2>2
  <2>4. u # t
    BY <1>10, <2>1 DEF Bringing
  <2>. QED BY <1>2, <1>7, <1>11, <1>12, <1>13, <2>2, <2>3, <2>4
<1>17. KeptLive'
  <2> SUFFICES ASSUME ~upset', taken' = {}, NEW p \in SUBSET Tab, NEW x \in Nat \ {0}, Kept(p, x)'
               PROVE  \/ Replacing(p)'
                      \/ x \in live' /\ \A u \in Tab : Knows(u, x)' => Place(u)' = p
    BY DEF KeptLive
  <2>1. \A u \in Tab : u # t => Place(u)' = Place(u)
    BY <1>3 DEF Place
  <2>2. CASE p = new
    <3>1. Replaces(t)'
      BY <1>5, <1>7 DEF Replaces
    <3>. QED BY <1>4, <2>2, <3>1 DEF Replacing
  <2>3. CASE p # new
    <3>1. ~upset /\ taken = {} /\ Kept(p, x) /\ p # Place(t)
      BY <1>2, <1>4, <1>13, <2>3
    <3>2. CASE Replacing(p)
      <4>1. PICK u \in Tab : Place(u) = p /\ Replaces(u)
        BY <3>2 DEF Replacing
      <4>2. u # t
        BY <3>1, <4>1
      <4>3. Replaces(u)'
        BY <1>5, <1>7, <4>1, <4>2 DEF Storing, Replaces, OthersSame, SameJob, Job
      <4>. QED BY <2>1, <4>1, <4>2, <4>3 DEF Replacing
    <3>3. CASE ~Replacing(p)
      <4>1. x \in live /\ \A u \in Tab : Knows(u, x) => Place(u) = p
        BY <1>0, <3>1, <3>3 DEF KeptLive
      <4>. QED BY <1>2, <1>12, <2>1, <4>1
    <3>. QED BY <3>2, <3>3
  <2>. QED BY <2>2, <2>3
<1>. QED BY <1>8, <1>9, <1>14, <1>15, <1>16, <1>17 DEF Inv

\* Loading a page drops the cache and the jobs of the tab: a token that was on
\* its way is lost, and upset records it.
LEMMA LoadKeeps ==
  ASSUME Inv, NEW t \in Tab, Load(t)
  PROVE  Inv'
<1>0. /\ Shaped /\ LoginAlone /\ KeptApart /\ KnownIssued /\ AnsweredIssued /\ BroughtNew
      /\ KeptLive
      /\ issued \in Nat
  BY DEF Inv, Shaped
<1>1. PICK p \in {"auto", "chat"} : page' = [page EXCEPT ![t] = p]
  BY DEF Load
<1>2. /\ mode' = [mode EXCEPT ![t] = IF flag = "none" THEN "local" ELSE flag]
      /\ cache' = [cache EXCEPT ![t] = Empty]
      /\ job' = [job EXCEPT ![t] = [j \in Job |->
             IF j = Page /\ page'[t] = "auto" THEN [Idle EXCEPT !.at = "reading"] ELSE Idle]]
      /\ semaphore' = [semaphore EXCEPT ![t] = Free]
      /\ upset' = (upset \/ Storing(t) \/ (page[t] = "login" /\ job[t][Page].at = "posted"))
      /\ UNCHANGED <<local, flag, session, live, issued, taken>>
  BY DEF Load
<1>3. /\ Empty \in Tokens /\ Empty.refresh = 0
      /\ Idle \in Jobs /\ Idle.at = "idle"
      /\ [Idle EXCEPT !.at = "reading"] \in Jobs /\ [Idle EXCEPT !.at = "reading"].at = "reading"
  BY DEF Empty, Tokens, Idle, Jobs, At
<1>4. /\ job' \in [Tab -> [Job -> Jobs]]
      /\ \A j \in Job : job'[t][j].at \in {"idle", "reading"}
      /\ \A j \in Job : j # Page => job'[t][j].at = "idle"
      /\ \A u \in Tab : u # t => job'[u] = job[u]
  BY <1>0, <1>2, <1>3 DEF Shaped, Jobs, At
<1>5. /\ mode' \in [Tab -> {"local", "session"}]
      /\ cache' \in [Tab -> Tokens] /\ cache'[t].refresh = 0
      /\ semaphore' \in [Tab -> Request \union {Free}]
      /\ page' \in [Tab -> Views]
      /\ page'[t] \in {"auto", "chat"}
      /\ \A u \in Tab : u # t => /\ cache'[u] = cache[u] /\ page'[u] = page[u]
                                 /\ mode'[u] = mode[u]
  BY <1>0, <1>1, <1>2, <1>3 DEF Shaped, Views
<1>6. Shaped'
  BY <1>0, <1>2, <1>4, <1>5 DEF Shaped, Jobs, At
<1>7. LoginAlone'
  BY <1>0, <1>4, <1>5, NamesApart DEF LoginAlone, Job, Early
<1>8. \A q, x : Kept(q, x)' <=> Kept(q, x)
  BY <1>2 DEF Kept
<1>9. /\ \A u \in Tab : \A k \in Job : \A x \in Nat :
             /\ Exchanging(u, k, x)' => u # t /\ Exchanging(u, k, x)
             /\ Bringing(u, k, x)' => u # t /\ Bringing(u, k, x)
             /\ Answered(u, k, x)' => u # t /\ Answered(u, k, x)
  BY <1>4 DEF Exchanging, Bringing, Answered
<1>10. \A u \in Tab : \A x \in Nat \ {0} : Knows(u, x)' => u # t /\ Knows(u, x)
  BY <1>5, <1>9 DEF Knows
<1>11. upset => upset'
  BY <1>2
<1>12. KeptApart'
  BY <1>0, <1>2, <1>8 DEF KeptApart
<1>13. KnownIssued' /\ AnsweredIssued'
  BY <1>0, <1>2, <1>9, <1>10 DEF KnownIssued, AnsweredIssued
<1>14. BroughtNew'
  <2> SUFFICES ASSUME NEW u \in Tab, NEW k \in Job, NEW x \in Nat, Bringing(u, k, x)',
                      x \notin taken'
               PROVE  /\ upset' \/ x \in live'
                      /\ \A q \in SUBSET Tab : ~Kept(q, x)'
                      /\ \A v \in Tab : \A l \in Job : Bringing(v, l, x)' => v = u /\ l = k
                      /\ \A v \in Tab : Knows(v, x)' => v = u /\ page'[u] = "register"
    BY DEF BroughtNew
  <2>1. Bringing(u, k, x) /\ u # t /\ x \notin taken
    BY <1>2, <1>9
  <2>2. /\ x \in 1 .. issued
        /\ upset \/ x \in live
        /\ \A q \in SUBSET Tab : ~Kept(q, x)
        /\ \A v \in Tab : \A l \in Job : Bringing(v, l, x) => v = u /\ l = k
        /\ \A v \in Tab : Knows(v, x) => v = u /\ page[u] = "register"
    BY <1>0, <2>1 DEF BroughtNew, AnsweredIssued, Answered
  <2>3. x \in Nat \ {0}
    BY <1>0, <2>2
  <2>. QED BY <1>2, <1>5, <1>8, <1>9, <1>10, <1>11, <2>1, <2>2, <2>3
<1>15. KeptLive'
  <2> SUFFICES ASSUME ~upset', taken' = {}, NEW q \in SUBSET Tab, NEW x \in Nat \ {0}, Kept(q, x)'
               PROVE  \/ Replacing(q)'
                      \/ x \in live' /\ \A u \in Tab : Knows(u, x)' => Place(u)' = q
    BY DEF KeptLive
  <2>1. ~upset /\ taken = {} /\ ~Replaces(t) /\ Kept(q, x)
    BY <1>2, <1>8 DEF Replaces
  <2>2. \A u \in Tab : u # t => Place(u)' = Place(u)
    BY <1>5 DEF Place
  <2>3. CASE Replacing(q)
    <3>1. PICK u \in Tab : Place(u) = q /\ Replaces(u)
      BY <2>3 DEF Replacing
    <3>2. u # t /\ Replaces(u)'
      BY <1>4, <1>5, <2>1, <3>1 DEF Storing, Replaces
    <3>. QED BY <2>2, <3>1, <3>2 DEF Replacing
  <2>4. CASE ~Replacing(q)
    <3>1. x \in live /\ \A u \in Tab : Knows(u, x) => Place(u) = q
      BY <1>0, <2>1, <2>4 DEF KeptLive
    <3>. QED BY <1>2, <1>10, <2>2, <3>1
  <2>. QED BY <2>3, <2>4
<1>. QED BY <1>6, <1>7, <1>12, <1>13, <1>14, <1>15 DEF Inv

-----------------------------------------------------------------------------
(* Results.                                                                *)

\* The invariant holds of a user who signed in earlier.
LEMMA InitInv ==
  ASSUME Init
  PROVE  Inv
<1>1. /\ local = [access |-> TRUE, refresh |-> 1] /\ flag = "local"
      /\ session = [t \in Tab |-> Empty] /\ cache = [t \in Tab |-> Empty]
      /\ mode = [t \in Tab |-> "local"] /\ page = [t \in Tab |-> "chat"]
      /\ job = [t \in Tab |-> [j \in Job |-> Idle]]
      /\ semaphore = [t \in Tab |-> Free]
      /\ live = {1} /\ issued = 1 /\ upset = FALSE /\ taken = {}
  BY DEF Init
<1>2. /\ Empty \in Tokens /\ Empty.refresh = 0 /\ local \in Tokens /\ local.refresh = 1
      /\ Idle \in Jobs /\ Idle.at = "idle"
  BY <1>1 DEF Empty, Tokens, Idle, Jobs, At
<1>3. Shaped
  <2>1. live \subseteq Nat /\ issued \in Nat
    <3>1. live = {1} /\ issued = 1
      BY <1>1
    <3>. QED BY <3>1
  <2>2. /\ session \in [Tab -> Tokens] /\ cache \in [Tab -> Tokens]
        /\ job \in [Tab -> [Job -> Jobs]] /\ semaphore \in [Tab -> Request \union {Free}]
    BY <1>1, <1>2
  <2>3. page \in [Tab -> Views] /\ mode \in [Tab -> {"local", "session"}]
    BY <1>1 DEF Views
  <2>4. local \in Tokens /\ flag \in {"none", "local", "session"} /\ upset \in BOOLEAN
    BY <1>1, <1>2
  <2>. QED BY <2>1, <2>2, <2>3, <2>4 DEF Shaped
<1>4. LoginAlone
  BY <1>1, <1>2 DEF LoginAlone, Job, Early
<1>5. \A p : \A x \in Nat \ {0} : Kept(p, x) => p = {} /\ x = 1
  BY <1>1, <1>2 DEF Kept
<1>6. \A t \in Tab : \A j \in Job : \A x : ~Exchanging(t, j, x) /\ ~Bringing(t, j, x) /\ ~Answered(t, j, x)
  BY <1>1, <1>2 DEF Exchanging, Bringing, Answered
<1>7. \A t \in Tab : \A x \in Nat \ {0} : ~Knows(t, x)
  BY <1>1, <1>2, <1>6 DEF Knows
<1>8. KeptApart
  <2>1. issued = 1
    BY <1>1
  <2>. QED BY <1>5, <2>1 DEF KeptApart
<1>9. KeptLive
  BY <1>1, <1>5, <1>7 DEF KeptLive
<1>. QED BY <1>3, <1>4, <1>6, <1>7, <1>8, <1>9
   DEF Inv, KnownIssued, AnsweredIssued, BroughtNew

\* Every step of a job keeps the invariant.
LEMMA JobStepKeeps ==
  ASSUME Inv, NEW t \in Tab, NEW j \in Job, JobStep(t, j)
  PROVE  Inv'
BY ReadTokensKeeps, FindTokenKeeps, RotateKeeps, LostKeeps, StoreAccessKeeps, StoreRefreshKeeps,
   WokenKeeps DEF JobStep

\* So does a step that changes nothing.
LEMMA StutterKeeps ==
  ASSUME Inv, UNCHANGED vars
  PROVE  Inv'
<1>1. UNCHANGED <<local, flag, session, mode, cache, page, job, semaphore, live, issued, upset, taken>>
  BY DEF vars
<1>2. /\ \A p, x : Kept(p, x)' <=> Kept(p, x)
      /\ \A u, x : Knows(u, x)' <=> Knows(u, x)
      /\ \A u, k, x : Bringing(u, k, x)' <=> Bringing(u, k, x)
      /\ \A u, k, x : Answered(u, k, x)' <=> Answered(u, k, x)
      /\ \A p : Replacing(p)' <=> Replacing(p)
      /\ \A u : Place(u)' = Place(u)
  BY <1>1 DEF Kept, Knows, Bringing, Answered, Replacing, Replaces, Exchanging, Place, Storing
<1>3. Shaped' /\ LoginAlone'
  BY <1>1 DEF Inv, Shaped, LoginAlone
<1>4. KeptApart' /\ KnownIssued' /\ AnsweredIssued'
  BY <1>1, <1>2 DEF Inv, KeptApart, KnownIssued, AnsweredIssued
<1>5. BroughtNew'
  BY <1>1, <1>2 DEF Inv, BroughtNew
<1>6. KeptLive'
  BY <1>1, <1>2 DEF Inv, KeptLive
<1>. QED BY <1>3, <1>4, <1>5, <1>6 DEF Inv

\* The invariant, whatever the tabs, their calls and the number of tokens.
THEOREM TokensInOrder == Init /\ [][Next]_vars => []Inv
<1>1. Init => Inv
  BY InitInv
<1>2. Inv /\ [Next]_vars => Inv'
  <2> SUFFICES ASSUME Inv, [Next]_vars
               PROVE  Inv'
    OBVIOUS
  <2>1. CASE UNCHANGED vars
    BY <2>1, StutterKeeps
  <2>2. ASSUME NEW t \in Tab, Load(t) PROVE Inv'
    BY <2>2, LoadKeeps
  <2>3. ASSUME NEW t \in Tab, Logout(t) \/ Login(t) \/ Authenticate(t) \/ LoginFails(t)
        PROVE  Inv'
    BY <2>3, LogoutKeeps, LoginKeeps, AuthenticateKeeps, LoginFailsKeeps
  <2>4. ASSUME NEW t \in Tab, Timer(t) \/ LoginEnds(t) \/ StaleDevice(t) PROVE Inv'
    BY <2>4, TimerKeeps, LoginEndsKeeps, StaleDeviceKeeps
  <2>5. ASSUME NEW t \in Tab, NEW r \in Requests[t], Expired(t, r) PROVE Inv'
    BY <2>5, ExpiredKeeps
  <2>6. ASSUME NEW t \in Tab, NEW j \in Job, JobStep(t, j) PROVE Inv'
    BY <2>6, JobStepKeeps
  <2>7. ASSUME NEW token \in orphans, RotateOrphan(token) PROVE Inv'
    BY <2>7, RotateOrphanKeeps
  <2>. QED BY <2>1, <2>2, <2>3, <2>4, <2>5, <2>6, <2>7 DEF Next
<1>. QED BY <1>1, <1>2, PTL

\* The steps of the page are steps of its tokens or leave them alone.
LEMMA TokensPart == PageSpec => Init /\ [][Next]_vars
<1>1. PageInit => Init
  BY DEF PageInit
<1>2. [PageNext]_pageVars => [Next]_vars
  BY DEF PageNext, pageVars
<1>3. QED
  BY <1>1, <1>2, PTL DEF PageSpec

\* A refresh token is never in two stores, through every login that moves it,
\* refresh that replaces it and page that is loaded meanwhile, unless a login
\* has stored it again that another tab had taken.
THEOREM TokensNeverCopied == PageSpec => []OnePlace
<1>1. Inv => OnePlace
  <2> SUFFICES ASSUME Inv, NEW t \in Tab, NEW u \in Tab,
                      session[t].refresh \notin {0} \union taken
               PROVE  /\ session[t].refresh # local.refresh
                      /\ t # u => session[t].refresh # session[u].refresh
    BY DEF OnePlace
  <2>1. PICK x \in Nat \ {0} : x = session[t].refresh
    BY DEF Inv, Shaped, Tokens
  <2>2. /\ {t} \in SUBSET Tab /\ {u} \in SUBSET Tab /\ {} \in SUBSET Tab /\ Kept({t}, x)
          /\ x \notin taken
    BY <2>1 DEF Kept
  <2>3. \A q \in SUBSET Tab : Kept(q, x) => q = {t}
    BY <2>2 DEF Inv, KeptApart
  <2>4. local.refresh # x
    BY <2>2, <2>3 DEF Kept
  <2>5. t # u => session[u].refresh # x
    <3>1. session[u].refresh = x => Kept({u}, x)
      BY DEF Kept
    <3>2. {u} = {t} => u = t
      OBVIOUS
    <3>. QED BY <2>2, <2>3, <3>1, <3>2
  <2>. QED BY <2>1, <2>4, <2>5
<1>. QED BY <1>1, TokensPart, TokensInOrder, PTL

\* At rest, a stored refresh token is one that the server accepts, unless an
\* answer was lost, a login that moved tokens did not succeed, or one stored its
\* tokens again that another tab had taken.
THEOREM StoredTokensAccepted == PageSpec => []StoredStaysLive
<1>1. Inv => StoredStaysLive
  <2> SUFFICES ASSUME Inv, AtRest, ~upset, taken = {}
               PROVE  /\ local.refresh \in live \union {0}
                      /\ \A t \in Tab : session[t].refresh \in live \union {0}
    BY DEF StoredStaysLive
  <2>1. \A t \in Tab : \A j \in Job : job[t][j].at = "idle"
    BY DEF AtRest, Idle
  <2>2. \A t \in Tab : ~Replaces(t)
    BY <2>1 DEF Storing, Replaces, Job
  <2>3. \A p \in SUBSET Tab : \A x \in Nat \ {0} : Kept(p, x) => x \in live
    BY <2>2 DEF Replacing, Inv, KeptLive
  <2>4. \A t \in Tab : Kept({t}, session[t].refresh) /\ {t} \in SUBSET Tab
    BY DEF Kept
  <2>5. Kept({}, local.refresh) /\ {} \in SUBSET Tab
    BY DEF Kept
  <2>6. local.refresh \in Nat /\ \A t \in Tab : session[t].refresh \in Nat
    BY DEF Inv, Shaped, Tokens
  <2>. QED BY <2>3, <2>4, <2>5, <2>6
<1>. QED BY <1>1, TokensPart, TokensInOrder, PTL

-----------------------------------------------------------------------------
(* Types: of the service worker, whose copies are of deployed versions.    *)

\* A copy of an asset, a cache and a request, of deployed versions.
Copy == 0 .. MaxVersion
Cache == [name : Worker!Version, has : [Asset -> Copy]]
Asked == [at : {"match", "fetch", "served"}, by : Worker!Version, url : Asset, got : Copy]

\* The caches after one is opened and copies are put.
LEMMA OpenedBound ==
  ASSUME caches \in Seq(Cache), NEW v \in Worker!Version, NEW urlsPut, NEW copy \in Copy
  PROVE  Worker!Opened(v, urlsPut, copy) \in Seq(Cache)
<1> DEFINE new == [name |-> v, has |-> Worker!Absent]
           all == IF Worker!Named(v) THEN caches ELSE Append(caches, new)
           put(i) == IF all[i].name # v THEN all[i]
                    ELSE [all[i] EXCEPT !.has =
                            [a \in Asset |-> IF a \in urlsPut THEN copy ELSE @[a]]]
<1>1. new \in Cache
  BY PageAssumption DEF Cache, Copy, Worker!Absent
<1> HIDE DEF new
<1>2. all \in Seq(Cache)
  BY <1>1
<1>3. Worker!Opened(v, urlsPut, copy) = [i \in DOMAIN all |-> put(i)]
  BY DEF Worker!Opened, new
<1> HIDE DEF all
<1>4. ASSUME NEW i \in DOMAIN all PROVE put(i) \in Cache
  <2>1. all[i] \in Cache
    BY <1>2
  <2> DEFINE h == [a \in Asset |-> IF a \in urlsPut THEN copy ELSE all[i].has[a]]
  <2>2. h \in [Asset -> Copy]
    BY <2>1 DEF Cache
  <2>3. put(i) = IF all[i].name # v THEN all[i] ELSE [all[i] EXCEPT !.has = h]
    BY <2>1 DEF Cache
  <2> HIDE DEF h, put
  <2>4. QED
    BY <2>1, <2>2, <2>3 DEF Cache
<1> HIDE DEF put
<1>5. DOMAIN all = 1 .. Len(all) /\ Len(all) \in Nat
  BY <1>2
<1>6. [i \in 1 .. Len(all) |-> put(i)] \in [1 .. Len(all) -> Cache]
  BY <1>4, <1>5
<1>7. QED
  BY <1>3, <1>5, <1>6

\* What is found is a copy.
LEMMA MatchedBound ==
  ASSUME caches \in Seq(Cache), NEW a \in Asset
  PROVE  Worker!Matched(a) \in Copy
<1> DEFINE with == {i \in DOMAIN caches : caches[i].has[a] # 0}
<1>1. CASE with = {}
  BY <1>1, PageAssumption DEF Worker!Matched, Copy
<1>2. CASE with # {}
  <2>1. with \subseteq Nat
    OBVIOUS
  <2>2. \E i \in with : \A j \in with : i <= j
    BY <1>2, <2>1, FirstOf
  <2>3. PICK i \in with : Worker!Matched(a) = caches[i].has[a]
    BY <1>2, <2>2 DEF Worker!Matched
  <2>4. caches[i] \in Cache
    BY <2>3
  <2>5. QED
    BY <2>3, <2>4 DEF Cache
<1>3. QED
  BY <1>1, <1>2

\* No version is newer than the last deployment.
WorkerBound ==
  /\ deployed \in Worker!Version /\ caches \in Seq(Cache)
  /\ request \in [Fetches -> {Worker!Idle} \cup Asked]
  /\ puts \subseteq [by : Worker!Version, url : Asset, got : Worker!Version]

\* No step puts into a cache what no server had.
LEMMA NextWorkerBound ==
  ASSUME WorkerInv, WorkerBound, Worker!Next
  PROVE  WorkerBound'
<1> DEFINE V == Worker!Version
<1>1. /\ V \subseteq Copy /\ 0 \in Copy /\ \A u \in V : u \in Nat
      /\ Offline \in Asset /\ deployed \in V
  BY PageAssumption DEF Worker!Version, Copy, WorkerBound
<1>2. CASE Worker!Deploy
  <2>1. deployed' \in V
    BY <1>1, <1>2, PageAssumption DEF Worker!Deploy, Worker!Version
  <2>2. QED
    BY <1>2, <2>1 DEF Worker!Deploy, WorkerBound
<1>3. ASSUME NEW v \in V, Worker!Install(v) \/ Worker!AddAll(v) PROVE WorkerBound'
  <2>1. \E x \in {Static, {}}, copy \in {0, deployed} :
          copy \in Copy /\ caches' = Worker!Opened(v, x, copy)
    BY <1>1, <1>3 DEF Worker!Install, Worker!AddAll
  <2>2. caches' \in Seq(Cache)
    BY <2>1, OpenedBound DEF WorkerBound
  <2>3. QED
    BY <1>3, <2>2 DEF Worker!Install, Worker!AddAll, WorkerBound
<1>4. ASSUME NEW v \in V, Worker!InstallFails(v) PROVE WorkerBound'
  BY <1>4 DEF Worker!InstallFails, WorkerBound
<1>5. ASSUME NEW v \in V, Worker!Activate(v) PROVE WorkerBound'
  <2>1. caches' = Worker!Kept(v)
    BY <1>5 DEF Worker!Activate
  <2>2. CASE Worker!Named(v)
    <3>1. PICK i \in DOMAIN caches : caches' = <<caches[i]>>
      BY <2>1, <2>2 DEF Worker!Kept, Worker!Named
    <3>2. caches[i] \in Cache
      BY DEF WorkerBound
    <3>3. caches' \in Seq(Cache)
      BY <3>1, <3>2
    <3>4. QED
      BY <1>5, <3>3 DEF Worker!Activate, WorkerBound
  <2>3. CASE ~Worker!Named(v)
    <3>1. caches' \in Seq(Cache)
      BY <2>1, <2>3 DEF Worker!Kept
    <3>2. QED
      BY <1>5, <3>1 DEF Worker!Activate, WorkerBound
  <2>4. QED
    BY <2>2, <2>3
<1>6. ASSUME NEW r \in Fetches, NEW v \in V, NEW a \in Asset, Worker!Fetch(r, v, a)
      PROVE  WorkerBound'
  <2>1. [at |-> "match", by |-> v, url |-> a, got |-> 0] \in Asked
    BY <1>1 DEF Asked
  <2>2. QED
    BY <1>6, <2>1 DEF Worker!Fetch, WorkerBound
<1>7. ASSUME NEW r \in Fetches,
             Worker!Match(r) \/ Worker!Respond(r) \/ Worker!FetchFails(r)
      PROVE  WorkerBound'
  <2>1. request[r].at \in {"match", "fetch"}
    BY <1>7 DEF Worker!Match, Worker!Respond, Worker!FetchFails
  <2>2. request[r] \in Asked
    BY <2>1 DEF WorkerBound, Worker!Idle
  <2>3. /\ Worker!Matched(request[r].url) \in Copy /\ Worker!Matched(Offline) \in Copy
        /\ deployed \in Copy
    BY <1>1, <2>2, MatchedBound DEF Asked, WorkerBound
  <2>4. \/ request' = [request EXCEPT ![r] = Worker!Idle]
        \/ \E new \in Asked : request' = [request EXCEPT ![r] = new]
    <3>1. CASE Worker!Match(r)
      <4> DEFINE copy == Worker!Matched(request[r].url)
                 new  == [request[r] EXCEPT !.at = IF copy = 0 THEN "fetch" ELSE "served",
                                            !.got = copy]
      <4>1. request' = [request EXCEPT ![r] = new]
        BY <3>1 DEF Worker!Match, WorkerBound
      <4>2. copy \in Copy
        BY <2>3
      <4> HIDE DEF copy
      <4>3. new \in Asked
        BY <2>2, <4>2 DEF Asked
      <4>4. QED
        BY <4>1, <4>3
    <3>2. CASE Worker!Respond(r)
      <4> DEFINE new == [request[r] EXCEPT !.at = "served", !.got = deployed]
      <4>1. request' = [request EXCEPT ![r] = new]
        BY <3>2 DEF Worker!Respond, WorkerBound
      <4>2. new \in Asked
        BY <2>2, <2>3 DEF Asked
      <4>3. QED
        BY <4>1, <4>2
    <3>3. CASE Worker!FetchFails(r)
      <4> DEFINE new == [request[r] EXCEPT !.at = "served", !.url = Offline,
                                           !.got = Worker!Matched(Offline)]
      <4>1. request' = [request EXCEPT ![r] = new] \/ request' = [request EXCEPT ![r] = Worker!Idle]
        BY <3>3 DEF Worker!FetchFails, WorkerBound
      <4>2. new \in Asked
        BY <1>1, <2>2, <2>3 DEF Asked
      <4>3. QED
        BY <4>1, <4>2
    <3>4. QED
      BY <1>7, <3>1, <3>2, <3>3
  <2>5. request' \in [Fetches -> {Worker!Idle} \cup Asked]
    BY <2>4 DEF WorkerBound
  <2>6. \/ puts' = puts
        \/ puts' = puts \cup {[by |-> request[r].by, url |-> request[r].url, got |-> deployed]}
    BY <1>7 DEF Worker!Match, Worker!Respond, Worker!FetchFails
  <2>7. puts' \subseteq [by : V, url : Asset, got : V]
    BY <1>1, <2>2, <2>6 DEF Asked, WorkerBound
  <2>8. UNCHANGED <<deployed, caches>>
    BY <1>7 DEF Worker!Match, Worker!Respond, Worker!FetchFails
  <2>9. QED
    BY <2>5, <2>7, <2>8 DEF WorkerBound
<1>8. ASSUME NEW r \in Fetches, Worker!Done(r) PROVE WorkerBound'
  BY <1>8 DEF Worker!Done, WorkerBound
<1>9. ASSUME NEW p \in puts, Worker!Put(p) PROVE WorkerBound'
  <2>1. p.by \in V /\ p.got \in Copy
    BY <1>1 DEF WorkerBound
  <2>2. caches' \in Seq(Cache)
    BY <1>9, <2>1, OpenedBound DEF WorkerBound, Worker!Put
  <2>3. QED
    BY <1>9, <2>2 DEF Worker!Put, WorkerBound
<1>10. QED
  BY <1>2, <1>3, <1>4, <1>5, <1>6, <1>7, <1>8, <1>9 DEF Worker!Next

\* The service worker keeps its types.
LEMMA WorkerTypes == PageSpec => []Worker!TypeOK
<1> DEFINE Both == WorkerInv /\ WorkerBound
<1>1. PageInit => Both
  <2>1. Worker!Init => WorkerBound
    BY PageAssumption DEF Worker!Init, WorkerBound, Worker!Version
  <2>2. QED
    BY <2>1, InitWorker DEF PageInit
<1>2. Both /\ [PageNext]_pageVars => Both'
  <2>1. WorkerBound /\ UNCHANGED workerVars => WorkerBound'
    BY DEF WorkerBound, workerVars
  <2>2. QED
    BY <2>1, NextWorker, WorkerKept, NextWorkerBound DEF PageNext, pageVars
<1>3. Both => Worker!TypeOK
  BY DEF WorkerInv, WorkerTyped, OneCache, WorkerBound, Worker!TypeOK, Cache, Copy, Asked
<1> HIDE DEF Both
<1>4. QED
  BY <1>1, <1>2, <1>3, PTL DEF PageSpec

-----------------------------------------------------------------------------
(* Types: of the conversions, no size of which is beyond the sources'.     *)

\* Scaling does not enlarge.
LEMMA ScaledBound ==
  ASSUME NEW s \in Media!Size
  PROVE  Media!Scaled(s) \in Media!Size
<1> DEFINE D == MaxDimension
<1>1. /\ s.w \in Nat /\ s.h \in Nat /\ D \in Nat /\ MaxSide \in Nat
      /\ s.w <= MaxSide /\ s.h <= MaxSide
  BY PageAssumption DEF Media!Size, Media!Side
<1>2. CASE s.w > s.h /\ s.w > D
  <2>1. Media!Scaled(s) = [w |-> D, h |-> Media!Scale(s.h, D, s.w)]
    BY <1>1, <1>2 DEF Media!Scaled
  <2>2. Media!Scale(s.h, D, s.w) \in 0 .. D
    <3>1. s.h <= s.w /\ s.w # 0
      BY <1>1, <1>2
    <3>2. QED
      BY <1>1, <3>1, ScaleBound
  <2>3. D \in Media!Side /\ Media!Scale(s.h, D, s.w) \in Media!Side
    BY <1>1, <1>2, <2>2 DEF Media!Side
  <2>4. QED
    BY <2>1, <2>3 DEF Media!Size
<1>3. CASE s.w <= s.h /\ s.h > D
  <2>1. Media!Scaled(s) = [w |-> Media!Scale(s.w, D, s.h), h |-> D]
    BY <1>1, <1>3 DEF Media!Scaled
  <2>2. Media!Scale(s.w, D, s.h) \in 0 .. D
    <3>1. s.w <= s.h /\ s.h # 0
      BY <1>1, <1>3
    <3>2. QED
      BY <1>1, <3>1, ScaleBound
  <2>3. D \in Media!Side /\ Media!Scale(s.w, D, s.h) \in Media!Side
    BY <1>1, <1>3, <2>2 DEF Media!Side
  <2>4. QED
    BY <2>1, <2>3 DEF Media!Size
<1>4. CASE ~(s.w > s.h /\ s.w > D) /\ ~(s.w <= s.h /\ s.h > D)
  <2>1. Media!Scaled(s) = s
    BY <1>1, <1>4 DEF Media!Scaled
  <2>2. QED
    BY <2>1
<1>5. QED
  BY <1>1, <1>2, <1>3, <1>4

\* What MediaTyped leaves open.
MediaBound ==
  /\ source \in [Task -> Media!Size] /\ canvas \in [Task -> Media!Size]
  /\ pdfJs \in {"none", "loading", "loaded", "failed"} /\ documents \subseteq Task

\* No event disturbs it: what is drawn is at most as large as the source.
LEMMA NextMediaBound ==
  ASSUME MediaBound, Media!Next
  PROVE  MediaBound'
<1> USE DEF Media!picture, Media!pdfVars
<1>1. CASE Media!ScriptEvent
  BY <1>1 DEF Media!ScriptEvent, MediaBound
<1>2. ASSUME NEW t \in Task, Media!Start(t) PROVE MediaBound'
  BY <1>2 DEF Media!Start, Media!StartImage, Media!StartVideo, Media!StartPdf, Media!LoadPdfJs,
              MediaBound
<1>3. ASSUME NEW t \in Task, Media!ImageLoaded(t) \/ Media!VideoSeeked(t) PROVE MediaBound'
  <2>1. PICK s \in Media!Size : Media!Drawn(t, s)
    BY <1>3 DEF Media!ImageLoaded, Media!VideoSeeked
  <2>2. source' \in [Task -> Media!Size] /\ canvas' \in [Task -> Media!Size]
    BY <2>1, ScaledBound DEF Media!Drawn, MediaBound
  <2>3. QED
    BY <1>3, <2>2 DEF Media!ImageLoaded, Media!VideoSeeked, MediaBound
<1>4. ASSUME NEW t \in Task,
             \/ Media!LoadError(t) \/ Media!VideoLoaded(t) \/ Media!TimedOut(t)
             \/ Media!Encoded(t) \/ Media!BytesRead(t) \/ Media!ScriptAwaited(t)
      PROVE  MediaBound'
  BY <1>4 DEF Media!LoadError, Media!VideoLoaded, Media!TimedOut, Media!Encoded,
              Media!BytesRead, Media!ScriptAwaited, MediaBound
<1>5. ASSUME NEW t \in Task, Media!DocumentOpened(t) \/ Media!PageRendered(t) PROVE MediaBound'
  BY <1>5 DEF Media!DocumentOpened, Media!PageRendered, MediaBound
<1>6. QED
  BY <1>1, <1>2, <1>3, <1>4, <1>5 DEF Media!Next, Media!Event

\* The conversions keep their types.
LEMMA MediaTypes == PageSpec => []Media!TypeOK
<1>1. PageInit => MediaBound
  BY PageAssumption
     DEF PageInit, Media!Init, MediaBound, Media!NoSize, Media!Size, Media!Side
<1>2. MediaBound /\ [PageNext]_pageVars => MediaBound'
  <2>1. MediaBound /\ UNCHANGED mediaVars => MediaBound'
    BY DEF MediaBound, mediaVars
  <2>2. QED
    BY <2>1, NextMediaBound DEF PageNext, pageVars
<1>3. MediaInv /\ MediaBound => Media!TypeOK
  BY DEF MediaInv, MediaTyped, MediaBound, Media!TypeOK
<1>4. QED
  BY <1>1, <1>2, <1>3, MediaAlways, PTL DEF PageSpec

-----------------------------------------------------------------------------
(* Types: of the tokens, no more of which are issued than the bound allows. *)

\* Where a job may still have a token issued.
Open == {"waiting", "woken", "reading", "posted", "found"}

\* For every token issued, for every job that may still have one issued and for every
\* call of a page that is gone there is one token of the bound.
TokensBounded ==
  /\ IsFiniteSet(Unanswered) /\ IsFiniteSet(orphans)
  /\ issued + Cardinality(Unanswered) + Cardinality(orphans) <= MaxTokens
  /\ live \subseteq 1 .. issued /\ orphans \subseteq 1 .. issued
  /\ \A t \in Tab, j \in Job : job[t][j].token \in 0 .. issued

\* Jobs end, wake up or go on, and keep their tokens.
Calm ==
  \A t \in Tab, j \in Job :
    /\ job'[t][j].token \in {0, job[t][j].token}
    /\ job'[t][j].at \in Open => job[t][j].at \in Open

\* The jobs that are unanswered.
LEMMA UnansweredAt ==
  ASSUME job \in [Tab -> [Job -> Jobs]]
  PROVE  /\ Unanswered \subseteq Tab \X Job
         /\ \A t \in Tab, j \in Job : <<t, j>> \in Unanswered <=> job[t][j].at \in Open
<1>1. \A t \in Tab, j \in Job : job[t][j].at \in At
  BY DEF Jobs
<1>2. QED
  BY <1>1 DEF Unanswered, At, Open

\* The same after a step.
LEMMA UnansweredNext ==
  ASSUME job' \in [Tab -> [Job -> Jobs]]
  PROVE  /\ Unanswered' \subseteq Tab \X Job
         /\ \A t \in Tab, j \in Job : <<t, j>> \in Unanswered' <=> job'[t][j].at \in Open
<1>1. \A t \in Tab, j \in Job : job'[t][j].at \in At
  BY DEF Jobs
<1>2. QED
  BY <1>1 DEF Unanswered, At, Open

\* A call that ends, alone or with one that waits.
LEMMA ReleaseCalm ==
  ASSUME job \in [Tab -> [Job -> Jobs]], NEW t \in Tab, NEW j \in Job,
         job' = [job EXCEPT ![t][j] = Idle] \/ Release(t, j)
  PROVE  Calm
<1>1. /\ \A u \in Tab, k \in Job : job[u][k] \in Jobs
      /\ Idle \in Jobs /\ Idle.token = 0 /\ Idle.at = "idle"
  BY DEF Idle, Jobs, At
<1>2. CASE job' = [job EXCEPT ![t][j] = Idle]
  <2>1. \A u \in Tab, k \in Job : job'[u][k] = IF u = t /\ k = j THEN Idle ELSE job[u][k]
    BY <1>2
  <2>2. QED
    BY <1>1, <2>1 DEF Calm, Open
<1>3. ASSUME NEW r \in Waiters(t), job' = [job EXCEPT ![t][j] = Idle, ![t][r].at = "woken"]
      PROVE  Calm
  <2>1. r \in Request /\ r \in Job /\ job[t][r].at = "waiting"
    BY DEF Waiters, Job
  <2> DEFINE mid == [job EXCEPT ![t][j] = Idle]
  <2>2. /\ mid \in [Tab -> [Job -> Jobs]]
        /\ \A u \in Tab, k \in Job : mid[u][k] = IF u = t /\ k = j THEN Idle ELSE job[u][k]
    BY <1>1
  <2>3. job' = [mid EXCEPT ![t] = [mid[t] EXCEPT ![r] = [mid[t][r] EXCEPT !.at = "woken"]]]
    BY <1>3, <2>2
  <2> HIDE DEF mid
  <2>4. mid[t][r] \in Jobs
    BY <2>1, <2>2
  <2>5. [mid[t][r] EXCEPT !.at = "woken"].token = mid[t][r].token
    BY <2>4 DEF Jobs
  <2>6. \A u \in Tab, k \in Job :
          job'[u][k] = IF u = t /\ k = r THEN [mid[t][r] EXCEPT !.at = "woken"] ELSE mid[u][k]
    BY <2>1, <2>2, <2>3
  <2>7. job[t][r].at \in Open
    BY <2>1 DEF Open
  <2>8. \A u \in Tab, k \in Job : job'[u][k].token \in {0, job[u][k].token}
    <3>1. \A u \in Tab, k \in Job : mid[u][k].token \in {0, job[u][k].token}
      BY <1>1, <2>2
    <3>2. \A u \in Tab, k \in Job : job'[u][k].token = mid[u][k].token
      BY <2>5, <2>6
    <3>3. QED
      BY <3>1, <3>2
  <2>9. \A u \in Tab, k \in Job : job'[u][k].at \in Open => job[u][k].at \in Open
    <3>1. SUFFICES ASSUME NEW u \in Tab, NEW k \in Job, job'[u][k].at \in Open,
                          ~(u = t /\ k = r)
                   PROVE  job[u][k].at \in Open
      BY <2>7
    <3>2. job'[u][k] = mid[u][k]
      BY <2>6, <3>1
    <3>3. QED
      BY <1>1, <2>2, <3>1, <3>2 DEF Open
  <2>10. QED
    BY <2>8, <2>9 DEF Calm
<1>4. QED
  BY <1>2, <1>3 DEF Release

\* A job that moves on.
LEMMA MovedCalm ==
  ASSUME Shaped, NEW t \in Tab, NEW j \in Job, NEW a \in At,
         job' = [job EXCEPT ![t][j].at = a], a \in Open => job[t][j].at \in Open
  PROVE  Calm
<1>1. job \in [Tab -> [Job -> Jobs]]
  BY DEF Shaped, Jobs, At
<1>2. job' = [job EXCEPT ![t] = [job[t] EXCEPT ![j] = [job[t][j] EXCEPT !.at = a]]]
  BY <1>1
<1>3. \A u \in Tab, k \in Job : <<u, k>> # <<t, j>> => job'[u][k] = job[u][k]
  BY <1>1, <1>2
<1>4. job'[t][j].at = a /\ job'[t][j].token = job[t][j].token
  BY MovedJob
<1>5. QED
  BY <1>3, <1>4 DEF Calm

\* A step that issues nothing and starts nothing.
LEMMA CalmBounded ==
  ASSUME TokensBounded, issued \in Nat, MaxTokens \in Nat, job \in [Tab -> [Job -> Jobs]],
         job' \in [Tab -> [Job -> Jobs]], Calm, UNCHANGED server
  PROVE  TokensBounded'
<1>1. Unanswered' \subseteq Unanswered
  <2>1. /\ Unanswered' \subseteq Tab \X Job
        /\ \A t \in Tab, j \in Job : <<t, j>> \in Unanswered' <=> job'[t][j].at \in Open
    BY UnansweredNext
  <2>2. QED
    BY <2>1, UnansweredAt DEF Calm
<1>2. IsFiniteSet(Unanswered') /\ Cardinality(Unanswered') <= Cardinality(Unanswered)
  BY <1>1, FS_Subset DEF TokensBounded
<1>3. /\ Cardinality(Unanswered) \in Nat /\ Cardinality(orphans) \in Nat
      /\ Cardinality(Unanswered') \in Nat
  BY <1>2, FS_CardinalityType DEF TokensBounded
<1>4. issued' = issued /\ live' = live /\ orphans' = orphans
  BY DEF server
<1>5. issued' + Cardinality(Unanswered') + Cardinality(orphans') <= MaxTokens
  <2>1. issued + Cardinality(Unanswered) + Cardinality(orphans) <= MaxTokens
    BY DEF TokensBounded
  <2>2. QED
    BY <1>2, <1>3, <1>4, <2>1
<1>6. \A t \in Tab, j \in Job : job'[t][j].token \in 0 .. issued'
  BY <1>4 DEF TokensBounded, Calm
<1>7. QED
  BY <1>2, <1>4, <1>5, <1>6 DEF TokensBounded

\* A job that starts, while there is a token left for it.
LEMMA AskedBounded ==
  ASSUME TokensBounded, Shaped, MaxTokens \in Nat, NEW t \in Tab, NEW j \in Job, NEW a \in At,
         StartJob(t, j, a), UNCHANGED server
  PROVE  TokensBounded'
<1> DEFINE new == [at |-> a, token |-> 0]
<1>1. job \in [Tab -> [Job -> Jobs]] /\ new \in Jobs /\ issued \in Nat
  BY DEF Shaped, Jobs, At
<1>2. /\ job' \in [Tab -> [Job -> Jobs]]
      /\ \A u \in Tab, k \in Job : job'[u][k] = IF u = t /\ k = j THEN new ELSE job[u][k]
  BY <1>1 DEF StartJob
<1>3. Unanswered' \subseteq Unanswered \cup {<<t, j>>}
  <2>1. /\ Unanswered' \subseteq Tab \X Job
        /\ \A u \in Tab, k \in Job : <<u, k>> \in Unanswered' <=> job'[u][k].at \in Open
    BY <1>2, UnansweredNext
  <2>2. \A u \in Tab, k \in Job :
          <<u, k>> \in Unanswered' => <<u, k>> \in Unanswered \cup {<<t, j>>}
    BY <1>1, <1>2, <2>1, UnansweredAt
  <2>3. QED
    BY <2>1, <2>2
<1>4. /\ IsFiniteSet(Unanswered \cup {<<t, j>>})
      /\ Cardinality(Unanswered \cup {<<t, j>>}) <= Cardinality(Unanswered) + 1
      /\ Cardinality(Unanswered \cup {<<t, j>>}) \in Nat /\ Cardinality(Unanswered) \in Nat
      /\ Cardinality(orphans) \in Nat
  <2>1. IsFiniteSet(Unanswered) /\ Cardinality(Unanswered) \in Nat /\ Cardinality(orphans) \in Nat
    BY FS_CardinalityType DEF TokensBounded
  <2>2. /\ IsFiniteSet(Unanswered \cup {<<t, j>>})
        /\ \/ Cardinality(Unanswered \cup {<<t, j>>}) = Cardinality(Unanswered)
           \/ Cardinality(Unanswered \cup {<<t, j>>}) = Cardinality(Unanswered) + 1
    BY <2>1, FS_AddElement
  <2>3. QED
    BY <2>1, <2>2
<1>5. /\ IsFiniteSet(Unanswered') /\ Cardinality(Unanswered') \in Nat
      /\ Cardinality(Unanswered') <= Cardinality(Unanswered) + 1
  <2> DEFINE more == Unanswered \cup {<<t, j>>}
  <2>1. Unanswered' \in SUBSET more /\ IsFiniteSet(more)
    BY <1>3, <1>4
  <2> HIDE DEF more
  <2>2. IsFiniteSet(Unanswered') /\ Cardinality(Unanswered') <= Cardinality(more)
    BY <2>1, FS_Subset
  <2>3. Cardinality(Unanswered') \in Nat
    BY <2>2, FS_CardinalityType
  <2>4. QED
    BY <1>4, <2>2, <2>3 DEF more
<1>6. issued' = issued /\ live' = live /\ orphans' = orphans
  BY DEF server
<1>7. issued + Cardinality(Unanswered) + Cardinality(orphans) < MaxTokens
  BY DEF StartJob, MayStart
<1>8. issued' + Cardinality(Unanswered') + Cardinality(orphans') <= MaxTokens
  BY <1>1, <1>4, <1>5, <1>6, <1>7
<1>9. \A u \in Tab, k \in Job : job'[u][k].token \in 0 .. issued'
  <2>1. new.token \in 0 .. issued
    BY <1>1
  <2>2. QED
    BY <1>2, <1>6, <2>1 DEF TokensBounded
<1>10. QED
  BY <1>5, <1>6, <1>8, <1>9 DEF TokensBounded

\* A job that gets a token.
LEMMA AnsweredBounded ==
  ASSUME TokensBounded, Shaped, MaxTokens \in Nat, NEW t \in Tab, NEW j \in Job,
         job[t][j].at \in Open,
         issued' = issued + 1, live' \subseteq live \cup {issued + 1}, orphans' = orphans,
         job' = [job EXCEPT ![t][j] = [at |-> "answered", token |-> issued + 1]]
  PROVE  TokensBounded'
<1> DEFINE new == [at |-> "answered", token |-> issued + 1]
<1>1. job \in [Tab -> [Job -> Jobs]] /\ new \in Jobs /\ issued \in Nat
  BY DEF Shaped, Jobs, At
<1>2. /\ job' \in [Tab -> [Job -> Jobs]]
      /\ \A u \in Tab, k \in Job : job'[u][k] = IF u = t /\ k = j THEN new ELSE job[u][k]
  BY <1>1
<1>3. Unanswered' \subseteq Unanswered \ {<<t, j>>} /\ <<t, j>> \in Unanswered
  <2>1. /\ Unanswered' \subseteq Tab \X Job
        /\ \A u \in Tab, k \in Job : <<u, k>> \in Unanswered' <=> job'[u][k].at \in Open
    BY <1>2, UnansweredNext
  <2>2. new.at \notin Open
    BY DEF Open
  <2>3. \A u \in Tab, k \in Job :
          <<u, k>> \in Unanswered' => <<u, k>> \in Unanswered \ {<<t, j>>}
    BY <1>1, <1>2, <2>1, <2>2, UnansweredAt
  <2>4. QED
    BY <1>1, <2>1, <2>3, UnansweredAt
<1>4. /\ IsFiniteSet(Unanswered \ {<<t, j>>})
      /\ Cardinality(Unanswered \ {<<t, j>>}) = Cardinality(Unanswered) - 1
      /\ Cardinality(Unanswered) \in Nat /\ Cardinality(orphans) \in Nat
  BY <1>3, FS_RemoveElement, FS_CardinalityType DEF TokensBounded
<1>5. /\ IsFiniteSet(Unanswered') /\ Cardinality(Unanswered') \in Nat
      /\ Cardinality(Unanswered') <= Cardinality(Unanswered) - 1
  <2> DEFINE rest == Unanswered \ {<<t, j>>}
  <2>1. Unanswered' \in SUBSET rest
    BY <1>3
  <2> HIDE DEF rest
  <2>2. IsFiniteSet(Unanswered') /\ Cardinality(Unanswered') <= Cardinality(rest)
    BY <1>4, <2>1, FS_Subset DEF rest
  <2>3. QED
    BY <1>4, <2>2, FS_CardinalityType DEF rest
<1>6. issued + Cardinality(Unanswered) + Cardinality(orphans) <= MaxTokens
  BY DEF TokensBounded
<1>7. issued' + Cardinality(Unanswered') + Cardinality(orphans') <= MaxTokens
  BY <1>1, <1>4, <1>5, <1>6
<1>8. live' \subseteq 1 .. issued' /\ orphans' \subseteq 1 .. issued' /\ IsFiniteSet(orphans')
  BY <1>1 DEF TokensBounded
<1>9. \A u \in Tab, k \in Job : job'[u][k].token \in 0 .. issued'
  <2>1. new.token \in 0 .. issued' /\ \A u \in Tab, k \in Job : job[u][k].token \in 0 .. issued'
    BY <1>1 DEF TokensBounded
  <2>2. QED
    BY <1>2, <2>1
<1>10. QED
  BY <1>5, <1>7, <1>8, <1>9 DEF TokensBounded

\* The call of a page that is gone.
LEMMA OrphanBounded ==
  ASSUME TokensBounded, issued \in Nat, MaxTokens \in Nat, NEW token \in orphans,
         RotateOrphan(token)
  PROVE  TokensBounded'
<1>1. /\ job' = job /\ orphans' = orphans \ {token}
      /\ \/ issued' = issued + 1 /\ live' \subseteq live \cup {issued + 1}
         \/ issued' = issued /\ live' = live
  BY DEF RotateOrphan, Revoked
<1>2. Unanswered' = Unanswered
  BY <1>1 DEF Unanswered
<1>3. /\ IsFiniteSet(orphans') /\ Cardinality(orphans') = Cardinality(orphans) - 1
      /\ Cardinality(Unanswered) \in Nat /\ Cardinality(orphans) \in Nat
  BY <1>1, FS_RemoveElement, FS_CardinalityType DEF TokensBounded
<1>4. issued + Cardinality(Unanswered) + Cardinality(orphans) <= MaxTokens
  BY DEF TokensBounded
<1>5. issued' + Cardinality(Unanswered') + Cardinality(orphans') <= MaxTokens
  BY <1>1, <1>2, <1>3, <1>4
<1>6. live' \subseteq 1 .. issued' /\ orphans' \subseteq 1 .. issued'
  <2>1. live \subseteq 1 .. issued /\ orphans \subseteq 1 .. issued
    BY DEF TokensBounded
  <2>2. 1 .. issued \subseteq 1 .. issued' /\ issued' \in Nat
    BY <1>1
  <2>3. live' \subseteq 1 .. issued'
    <3>1. CASE issued' = issued + 1 /\ live' \subseteq live \cup {issued + 1}
      <4>1. issued + 1 \in 1 .. issued'
        BY <3>1
      <4>2. QED
        BY <2>1, <2>2, <3>1, <4>1
    <3>2. CASE issued' = issued /\ live' = live
      BY <2>1, <3>2
    <3>3. QED
      BY <1>1, <3>1, <3>2
  <2>4. QED
    BY <1>1, <2>1, <2>2, <2>3
<1>7. \A u \in Tab, k \in Job : job'[u][k].token \in 0 .. issued'
  <2>1. \A u \in Tab, k \in Job : job[u][k].token \in 0 .. issued'
    BY <1>1 DEF TokensBounded
  <2>2. QED
    BY <1>1, <2>1
<1>8. QED
  BY <1>2, <1>3, <1>5, <1>6, <1>7 DEF TokensBounded

\* A page that is loaded: its calls on their way are no jobs any more, but still have a
\* token each.
LEMMA LoadBounded ==
  ASSUME TokensBounded, Shaped, MaxTokens \in Nat, NEW t \in Tab, Load(t)
  PROVE  TokensBounded'
<1> DEFINE sentJobs == {x \in {t} \X Job : /\ job[x[1]][x[2]].at = "posted"
                                           /\ job[x[1]][x[2]].token # 0}
           tokenOf == [x \in sentJobs |-> job[x[1]][x[2]].token]
           tokens == {job[t][j].token : j \in {k \in Job : /\ job[t][k].at = "posted"
                                                           /\ job[t][k].token # 0}}
           rest == Unanswered \ sentJobs
<1>1. /\ job' = [job EXCEPT ![t] = [j \in Job |->
             IF j = Page /\ page'[t] = "auto" THEN [Idle EXCEPT !.at = "reading"] ELSE Idle]]
      /\ orphans' = orphans \cup tokens /\ issued' = issued /\ live' = live /\ MayStart
  BY DEF Load
<1>2. job \in [Tab -> [Job -> Jobs]] /\ issued \in Nat /\ Page \in Job
  BY DEF Shaped, Jobs, At, Job
<1>3. /\ Idle \in Jobs /\ Idle.at = "idle" /\ Idle.token = 0
      /\ [Idle EXCEPT !.at = "reading"] \in Jobs /\ [Idle EXCEPT !.at = "reading"].token = 0
  BY DEF Idle, Jobs, At
<1>4. /\ job' \in [Tab -> [Job -> Jobs]]
      /\ \A j \in Job : job'[t][j].token = 0 /\ (j # Page => job'[t][j].at = "idle")
      /\ \A u \in Tab : u # t => job'[u] = job[u]
  BY <1>1, <1>2, <1>3
<1>5. sentJobs \subseteq Unanswered
  BY <1>2, UnansweredAt DEF Open
<1>6. tokenOf \in Surjection(sentJobs, tokens)
  <2>1. ASSUME NEW x \in sentJobs PROVE tokenOf[x] \in tokens
    <3>1. PICK j \in Job : x = <<t, j>>
      OBVIOUS
    <3>2. job[t][j].at = "posted" /\ job[t][j].token # 0 /\ tokenOf[x] = job[t][j].token
      BY <3>1
    <3>3. QED
      BY <3>2
  <2>2. ASSUME NEW n \in tokens PROVE \E x \in sentJobs : tokenOf[x] = n
    <3>1. PICK j \in Job : job[t][j].at = "posted" /\ job[t][j].token # 0 /\ n = job[t][j].token
      OBVIOUS
    <3>2. <<t, j>> \in sentJobs /\ tokenOf[<<t, j>>] = n
      BY <3>1
    <3>3. QED
      BY <3>2
  <2>3. tokenOf = [x \in sentJobs |-> tokenOf[x]]
    OBVIOUS
  <2> HIDE DEF sentJobs, tokenOf, tokens
  <2>4. QED
    BY <2>1, <2>2, <2>3 DEF Surjection
<1>7. Unanswered' \subseteq rest \cup {<<t, Page>>}
  <2>1. /\ Unanswered' \subseteq Tab \X Job
        /\ \A u \in Tab, k \in Job : <<u, k>> \in Unanswered' <=> job'[u][k].at \in Open
    BY <1>4, UnansweredNext
  <2>2. ASSUME NEW u \in Tab, NEW k \in Job, <<u, k>> \in Unanswered'
        PROVE  <<u, k>> \in rest \cup {<<t, Page>>}
    <3>1. CASE u = t
      <4>1. "idle" \notin Open
        BY DEF Open
      <4>2. QED
        BY <1>4, <2>1, <2>2, <3>1, <4>1
    <3>2. CASE u # t
      <4>1. <<u, k>> \in Unanswered
        BY <1>2, <1>4, <2>1, <2>2, <3>2, UnansweredAt
      <4>2. QED
        BY <3>2, <4>1
    <3>3. QED
      BY <3>1, <3>2
  <2>3. QED
    BY <2>1, <2>2
<1>8. tokens \subseteq 1 .. issued
  <2>1. \A j \in Job : job[t][j].token \in 0 .. issued
    BY DEF TokensBounded
  <2>2. QED
    BY <1>2, <2>1
<1> HIDE DEF sentJobs, tokenOf, tokens
<1>9. /\ IsFiniteSet(sentJobs) /\ Cardinality(sentJobs) \in Nat
      /\ IsFiniteSet(tokens) /\ Cardinality(tokens) \in Nat
      /\ Cardinality(tokens) <= Cardinality(sentJobs)
  <2>1. IsFiniteSet(sentJobs) /\ Cardinality(sentJobs) \in Nat
    BY <1>5, FS_Subset, FS_CardinalityType DEF TokensBounded
  <2>2. IsFiniteSet(tokens) /\ Cardinality(tokens) <= Cardinality(sentJobs)
    BY <1>6, <2>1, FS_Surjection
  <2>3. QED
    BY <2>1, <2>2, FS_CardinalityType
<1>10. /\ IsFiniteSet(rest) /\ Cardinality(rest) = Cardinality(Unanswered) - Cardinality(sentJobs)
       /\ Cardinality(rest) \in Nat /\ Cardinality(Unanswered) \in Nat
       /\ Cardinality(orphans) \in Nat
  <2>1. Unanswered \cap sentJobs = sentJobs
    BY <1>5
  <2>2. IsFiniteSet(rest) /\ Cardinality(rest) = Cardinality(Unanswered) - Cardinality(sentJobs)
    BY <2>1, FS_Difference DEF TokensBounded
  <2>3. QED
    BY <2>2, FS_CardinalityType DEF TokensBounded
<1> HIDE DEF rest
<1>11. /\ IsFiniteSet(Unanswered') /\ Cardinality(Unanswered') \in Nat
       /\ Cardinality(Unanswered') <= Cardinality(rest) + 1
  <2> DEFINE more == rest \cup {<<t, Page>>}
  <2>1. /\ IsFiniteSet(more) /\ Cardinality(more) \in Nat
        /\ Cardinality(more) <= Cardinality(rest) + 1
    <3>1. /\ IsFiniteSet(more)
          /\ Cardinality(more) = Cardinality(rest) \/ Cardinality(more) = Cardinality(rest) + 1
      BY <1>10, FS_AddElement
    <3>2. QED
      BY <1>10, <3>1
  <2>2. Unanswered' \in SUBSET more
    BY <1>7
  <2> HIDE DEF more
  <2>3. IsFiniteSet(Unanswered') /\ Cardinality(Unanswered') <= Cardinality(more)
    BY <2>1, <2>2, FS_Subset
  <2>4. Cardinality(Unanswered') \in Nat
    BY <2>3, FS_CardinalityType
  <2>5. QED
    BY <1>10, <2>1, <2>3, <2>4
<1>12. /\ IsFiniteSet(orphans') /\ Cardinality(orphans') \in Nat
       /\ Cardinality(orphans') <= Cardinality(orphans) + Cardinality(tokens)
  <2>1. /\ IsFiniteSet(orphans \cup tokens)
        /\ Cardinality(orphans \cup tokens) =
             Cardinality(orphans) + Cardinality(tokens) - Cardinality(orphans \cap tokens)
    BY <1>9, FS_Union DEF TokensBounded
  <2>2. Cardinality(orphans \cap tokens) \in Nat /\ Cardinality(orphans \cup tokens) \in Nat
    <3>1. IsFiniteSet(orphans \cap tokens)
      BY <1>9, FS_Subset
    <3>2. QED
      BY <2>1, <3>1, FS_CardinalityType
  <2>3. QED
    BY <1>1, <1>9, <1>10, <2>1, <2>2
<1>13. issued + Cardinality(Unanswered) + Cardinality(orphans) < MaxTokens
  BY <1>1 DEF MayStart
<1>14. issued' + Cardinality(Unanswered') + Cardinality(orphans') <= MaxTokens
  BY <1>1, <1>2, <1>9, <1>10, <1>11, <1>12, <1>13
<1>15. live' \subseteq 1 .. issued' /\ orphans' \subseteq 1 .. issued'
  BY <1>1, <1>8 DEF TokensBounded
<1>16. \A u \in Tab, k \in Job : job'[u][k].token \in 0 .. issued'
  <2>1. 0 \in 0 .. issued
    BY <1>2
  <2>2. QED
    BY <1>1, <1>4, <2>1 DEF TokensBounded
<1>17. QED
  BY <1>11, <1>12, <1>14, <1>15, <1>16 DEF TokensBounded

\* A job that fails.
LEMMA FailCalm ==
  ASSUME Shaped, NEW t \in Tab, NEW j \in Job, NEW refused \in BOOLEAN, Fail(t, j, refused)
  PROVE  Calm
<1>1. job \in [Tab -> [Job -> Jobs]]
  BY DEF Shaped, Jobs, At
<1>2. job' = [job EXCEPT ![t][j] = Idle] \/ Release(t, j)
  BY DEF Fail
<1>3. QED
  BY <1>1, <1>2, ReleaseCalm

\* The token that a job reads is one that was issued.
LEMMA ReadBounded ==
  ASSUME TokensBounded, Inv, MaxTokens \in Nat, NEW t \in Tab, NEW j \in Job, ReadTokens(t, j),
         Shaped'
  PROVE  TokensBounded'
<1>1. /\ Shaped /\ KeptApart /\ KnownIssued /\ issued \in Nat
      /\ job \in [Tab -> [Job -> Jobs]] /\ job' \in [Tab -> [Job -> Jobs]]
  BY DEF Inv, Shaped, Jobs, At
<1> DEFINE seen == Merge(cache[t], StoreOf(t))
<1>2. /\ job[t][j].at = "reading" /\ UNCHANGED server
      /\ \/ job' = [job EXCEPT ![t][j] = [at |-> "posted", token |-> seen.refresh]]
         \/ Fail(t, j, FALSE)
  BY DEF ReadTokens, server
<1>3. CASE Fail(t, j, FALSE)
  BY <1>1, <1>2, <1>3, FailCalm, CalmBounded
<1>4. CASE job' = [job EXCEPT ![t][j] = [at |-> "posted", token |-> seen.refresh]]
  <2>1. seen.refresh \in 0 .. issued
    <3>1. /\ cache[t] \in Tokens /\ StoreOf(t) \in Tokens /\ Place(t) \in SUBSET Tab
          /\ Kept(Place(t), StoreOf(t).refresh)
      BY <1>1, PlaceIsKept DEF Shaped
    <3>2. cache[t].refresh \in 0 .. issued
      BY <1>1, <3>1 DEF KnownIssued, Knows, Tokens
    <3>3. StoreOf(t).refresh \in 0 .. issued
      BY <1>1, <3>1 DEF KeptApart, Tokens
    <3>4. QED
      BY <3>2, <3>3 DEF Merge
  <2> HIDE DEF seen
  <2> DEFINE new == [at |-> "posted", token |-> seen.refresh]
  <2>2. new \in Jobs /\ new.at = "posted" /\ new.token = seen.refresh
    BY <1>1, <2>1 DEF Jobs, At
  <2> HIDE DEF new
  <2>3. \A u \in Tab, k \in Job : job'[u][k] = IF u = t /\ k = j THEN new ELSE job[u][k]
    BY <1>1, <1>4 DEF new
  <2>4. Unanswered' = Unanswered
    <3>1. /\ Unanswered' \subseteq Tab \X Job
          /\ \A u \in Tab, k \in Job : <<u, k>> \in Unanswered' <=> job'[u][k].at \in Open
      BY <1>1, UnansweredNext
    <3>2. job[t][j].at \in Open /\ new.at \in Open
      BY <1>2, <2>2 DEF Open
    <3>3. \A u \in Tab, k \in Job : <<u, k>> \in Unanswered' <=> <<u, k>> \in Unanswered
      BY <1>1, <2>3, <3>1, <3>2, UnansweredAt
    <3>4. Unanswered \subseteq Tab \X Job
      BY <1>1, UnansweredAt
    <3>5. Unanswered' \subseteq Unanswered /\ Unanswered \subseteq Unanswered'
      BY <3>1, <3>3, <3>4
    <3>6. QED
      BY <3>5
  <2>5. \A u \in Tab, k \in Job : job'[u][k].token \in 0 .. issued
    BY <2>1, <2>2, <2>3 DEF TokensBounded
  <2>6. QED
    BY <1>2, <2>4, <2>5 DEF TokensBounded, server
<1>5. QED
  BY <1>2, <1>3, <1>4

\* No step issues a token that the bound does not have left.
LEMMA NextTokensBounded ==
  ASSUME TokensBounded, Inv, Inv', MaxTokens \in Nat, Next
  PROVE  TokensBounded'
<1>1. /\ Shaped /\ Shaped' /\ issued \in Nat
      /\ job \in [Tab -> [Job -> Jobs]] /\ job' \in [Tab -> [Job -> Jobs]]
  BY DEF Inv, Shaped, Jobs, At
<1>2. Calm /\ UNCHANGED server => TokensBounded'
  BY <1>1, CalmBounded
<1>3. Page \in Job /\ \A t \in Tab : Requests[t] \subseteq Job
  BY DEF Job, Request
<1>4. ASSUME NEW t \in Tab, Logout(t) PROVE TokensBounded'
  <2>1. UNCHANGED <<job, server>>
    BY <1>4 DEF Logout
  <2>2. Calm
    BY <2>1 DEF Calm
  <2>3. QED
    BY <1>2, <2>1, <2>2
<1>5. ASSUME NEW t \in Tab, Login(t) \/ Timer(t) PROVE TokensBounded'
  <2>1. PICK a \in At : StartJob(t, Page, a) /\ UNCHANGED server
    BY <1>5 DEF Login, Timer, At
  <2>2. QED
    BY <1>1, <1>3, <2>1, AskedBounded
<1>6. ASSUME NEW t \in Tab, NEW r \in Requests[t], Expired(t, r) PROVE TokensBounded'
  <2>1. PICK a \in At : StartJob(t, r, a) /\ UNCHANGED server
    BY <1>6 DEF Expired, At
  <2>2. QED
    BY <1>1, <1>3, <2>1, AskedBounded
<1>7. ASSUME NEW t \in Tab, Authenticate(t) PROVE TokensBounded'
  <2>1. /\ job[t][Page].at \in Open
        /\ issued' = issued + 1 /\ live' \subseteq live \cup {issued + 1} /\ orphans' = orphans
        /\ job' = [job EXCEPT ![t][Page] = [at |-> "answered", token |-> issued + 1]]
    BY <1>7 DEF Authenticate, Open
  <2>2. QED
    BY <1>1, <1>3, <2>1, AnsweredBounded
<1>8. ASSUME NEW t \in Tab, NEW j \in Job, Rotate(t, j) PROVE TokensBounded'
  <2>1. /\ job[t][j].at \in Open
        /\ issued' = issued + 1 /\ live' \subseteq live \cup {issued + 1} /\ orphans' = orphans
        /\ job' = [job EXCEPT ![t][j] = [at |-> "answered", token |-> issued + 1]]
    BY <1>8 DEF Rotate, Revoked, Open
  <2>2. QED
    BY <1>1, <2>1, AnsweredBounded
<1>9. ASSUME NEW t \in Tab, LoginFails(t) \/ LoginEnds(t) PROVE TokensBounded'
  <2>1. job' = [job EXCEPT ![t][Page] = Idle] /\ UNCHANGED server
    BY <1>9 DEF LoginFails, LoginEnds
  <2>2. QED
    BY <1>1, <1>2, <1>3, <2>1, ReleaseCalm
<1>10. ASSUME NEW t \in Tab, NEW j \in Job, StaleDevice(t) \/ StoreAccess(t, j) PROVE TokensBounded'
  <2>1. PICK k \in Job, a \in {"answered", "storing"} :
          job' = [job EXCEPT ![t][k].at = a] /\ UNCHANGED server
    BY <1>3, <1>10 DEF StaleDevice, StoreAccess
  <2>2. a \in At /\ a \notin Open
    BY DEF At, Open
  <2>3. QED
    BY <1>1, <1>2, <2>1, <2>2, MovedCalm
<1>11. ASSUME NEW t \in Tab, NEW j \in Job, FindToken(t, j) PROVE TokensBounded'
  <2>1. /\ job[t][j].at = "posted" /\ UNCHANGED server
        /\ job' = [job EXCEPT ![t][j].at = "found"] \/ Fail(t, j, TRUE)
    BY <1>11 DEF FindToken
  <2>2. "found" \in At /\ job[t][j].at \in Open
    BY <2>1 DEF At, Open
  <2>3. QED
    BY <1>1, <1>2, <2>1, <2>2, MovedCalm, FailCalm
<1>12. ASSUME NEW t \in Tab, NEW j \in Job, Lost(t, j) PROVE TokensBounded'
  <2>1. Fail(t, j, FALSE) /\ UNCHANGED server
    BY <1>12 DEF Lost
  <2>2. QED
    BY <1>1, <1>2, <2>1, FailCalm
<1>13. ASSUME NEW t \in Tab, NEW j \in Job, StoreRefresh(t, j) \/ Woken(t, j) PROVE TokensBounded'
  <2>1. /\ \/ job' = [job EXCEPT ![t][j] = Idle] \/ Release(t, j)
           \/ job' = [job EXCEPT ![t][j].at = "verifying"]
        /\ UNCHANGED server
    BY <1>13 DEF StoreRefresh, Woken
  <2>2. "verifying" \in At /\ "verifying" \notin Open
    BY DEF At, Open
  <2>3. QED
    BY <1>1, <1>2, <2>1, <2>2, ReleaseCalm, MovedCalm
<1>14. ASSUME NEW t \in Tab, NEW j \in Job, JobStep(t, j) PROVE TokensBounded'
  BY <1>1, <1>8, <1>10, <1>11, <1>12, <1>13, <1>14, ReadBounded DEF JobStep
<1>15. ASSUME NEW t \in Tab, Load(t) PROVE TokensBounded'
  BY <1>1, <1>15, LoadBounded
<1>16. ASSUME NEW token \in orphans, RotateOrphan(token) PROVE TokensBounded'
  BY <1>1, <1>16, OrphanBounded
<1>17. QED
  BY <1>3, <1>4, <1>5, <1>6, <1>7, <1>9, <1>10, <1>14, <1>15, <1>16 DEF Next

\* A login stores no token again that was not issued.
LEMMA TakenIssued ==
  ASSUME taken \subseteq 1 .. issued, Inv, [Next]_vars
  PROVE  taken' \subseteq 1 .. issued'
<1>1. issued \in Nat /\ Page \in Job /\ AnsweredIssued /\ job \in [Tab -> [Job -> Jobs]]
  BY DEF Inv, Shaped, Job
<1>2. CASE taken' = taken /\ issued' \in {issued, issued + 1}
  BY <1>1, <1>2
<1>3. ASSUME NEW t \in Tab, StaleDevice(t) PROVE taken' \subseteq 1 .. issued'
  <2>1. /\ job[t][Page].at = "verifying" /\ issued' = issued
        /\ taken' \subseteq taken \union {job[t][Page].token}
    BY <1>3 DEF StaleDevice, server
  <2>2. job[t][Page].token \in Nat
    BY <1>1 DEF Jobs
  <2>3. job[t][Page].token \in 1 .. issued
    BY <1>1, <2>1, <2>2 DEF AnsweredIssued, Answered
  <2>. QED BY <2>1, <2>3
<1>4. \/ taken' = taken /\ issued' \in {issued, issued + 1}
      \/ \E t \in Tab : StaleDevice(t)
  <2>1. CASE UNCHANGED vars
    BY <2>1 DEF vars
  <2>2. ASSUME NEW t \in Tab, NEW j \in Job, JobStep(t, j)
        PROVE  taken' = taken /\ issued' \in {issued, issued + 1}
    BY <2>2 DEF JobStep, ReadTokens, FindToken, Rotate, Lost, StoreAccess, StoreRefresh, Woken,
       server, history
  <2>3. ASSUME NEW t \in Tab,
               \/ Load(t) \/ Logout(t) \/ Login(t) \/ Authenticate(t) \/ LoginFails(t)
               \/ Timer(t) \/ LoginEnds(t) \/ \E r \in Requests[t] : Expired(t, r)
        PROVE  taken' = taken /\ issued' \in {issued, issued + 1}
    BY <2>3 DEF Load, Logout, Login, Authenticate, LoginFails, Timer, LoginEnds, Expired,
       server, history
  <2>4. ASSUME NEW token \in orphans, RotateOrphan(token)
        PROVE  taken' = taken /\ issued' \in {issued, issued + 1}
    BY <2>4 DEF RotateOrphan
  <2>. QED BY <2>1, <2>2, <2>3, <2>4 DEF Next
<1>. QED BY <1>2, <1>3, <1>4

\* The tokens keep their types.
LEMMA TokenTypes == PageSpec => []TypeOK
<1> DEFINE Stored == taken \subseteq 1 .. issued
<1>1. Init => TokensBounded /\ Stored
  <2>1. SUFFICES ASSUME Init PROVE TokensBounded /\ taken \subseteq 1 .. issued
    OBVIOUS
  <2>2. /\ job = [t \in Tab |-> [j \in Job |-> Idle]] /\ issued = 1 /\ live = {1} /\ orphans = {}
        /\ taken = {}
    BY <2>1 DEF Init
  <2>3. Unanswered = {}
    BY <2>2 DEF Unanswered, Idle
  <2>4. QED
    BY <2>2, <2>3, FS_EmptySet, TokensAssumption DEF TokensBounded, Idle
<1>2. TokensBounded /\ Inv /\ Inv' /\ [Next]_vars => TokensBounded'
  <2>1. TokensBounded /\ UNCHANGED vars => TokensBounded'
    BY DEF TokensBounded, vars, Unanswered
  <2>2. QED
    BY <2>1, NextTokensBounded, TokensAssumption
<1>a. Stored /\ Inv /\ [Next]_vars => Stored'
  BY TakenIssued
<1>3. TokensBounded /\ Inv /\ Stored => TypeOK
  <2>1. SUFFICES ASSUME TokensBounded, Shaped, KeptApart, KnownIssued, taken \subseteq 1 .. issued
                 PROVE  TypeOK
    BY DEF Inv
  <2>2. issued \in Nat /\ issued \in Token
    <3>1. issued \in Nat
      BY <2>1 DEF Shaped
    <3>2. Cardinality(Unanswered) \in Nat /\ Cardinality(orphans) \in Nat
      BY <2>1, FS_CardinalityType DEF TokensBounded
    <3>3. issued + Cardinality(Unanswered) + Cardinality(orphans) <= MaxTokens
      BY <2>1 DEF TokensBounded
    <3>4. QED
      BY <3>1, <3>2, <3>3, TokensAssumption DEF Token
  <2>3. 0 .. issued \subseteq Token
    BY <2>2, TokensAssumption DEF Token
  <2>4. ASSUME NEW x \in Nat, x # 0 => x <= issued PROVE x \in Token
    BY <2>2, <2>3, <2>4
  <2>5. local \in Store
    <3>1. Kept({}, local.refresh) /\ {} \in SUBSET Tab /\ local \in Tokens
      BY <2>1 DEF Kept, Shaped
    <3>2. local.refresh \in Nat /\ (local.refresh # 0 => local.refresh <= issued)
      BY <2>1, <3>1 DEF KeptApart, Tokens
    <3>3. QED
      BY <2>4, <3>1, <3>2 DEF Tokens, Store
  <2>6. session \in [Tab -> Store]
    <3>1. ASSUME NEW t \in Tab PROVE session[t] \in Store
      <4>1. Kept({t}, session[t].refresh) /\ {t} \in SUBSET Tab /\ session[t] \in Tokens
        BY <2>1 DEF Kept, Shaped
      <4>2. session[t].refresh \in Nat /\ (session[t].refresh # 0 => session[t].refresh <= issued)
        BY <2>1, <4>1 DEF KeptApart, Tokens
      <4>3. QED
        BY <2>4, <4>1, <4>2 DEF Tokens, Store
    <3>2. QED
      BY <2>1, <3>1 DEF Shaped
  <2>7. cache \in [Tab -> Store]
    <3>1. ASSUME NEW t \in Tab PROVE cache[t] \in Store
      <4>1. Knows(t, cache[t].refresh) /\ cache[t] \in Tokens
        BY <2>1 DEF Knows, Shaped
      <4>2. cache[t].refresh \in Nat /\ (cache[t].refresh # 0 => cache[t].refresh <= issued)
        BY <2>1, <4>1 DEF KnownIssued, Tokens
      <4>3. QED
        BY <2>4, <4>1, <4>2 DEF Tokens, Store
    <3>2. QED
      BY <2>1, <3>1 DEF Shaped
  <2>8. job \in [Tab -> [Job -> [at : At, token : Token]]]
    <3>1. job \in [Tab -> [Job -> Jobs]]
      BY <2>1 DEF Shaped, Jobs, At
    <3>2. \A t \in Tab, j \in Job : job[t][j].token \in Token
      BY <2>1, <2>3 DEF TokensBounded
    <3>3. QED
      BY <3>1, <3>2 DEF Jobs
  <2>9. live \subseteq 1 .. issued /\ orphans \subseteq Token /\ taken \subseteq Token
    BY <2>1, <2>2, <2>3 DEF TokensBounded
  <2>10. QED
    BY <2>1, <2>2, <2>5, <2>6, <2>7, <2>8, <2>9 DEF TypeOK, Shaped, At, Views
<1> HIDE DEF Stored
<1>4. QED
  BY <1>1, <1>2, <1>a, <1>3, TokensInOrder, TokensPart, PTL

\* Every script of the page keeps its state within its types and bounds, whatever events
\* come in whatever order: there is a URL of the preview exactly while there is a recording
\* to preview, one cache of a name, no picture larger than the largest source, and no token
\* that was not issued in any store, cache, job or call.
THEOREM PageTypesCorrect == PageSpec => []PageTypeOK
BY VoiceTypes, WorkerTypes, TokenTypes, MediaTypes, PTL DEF PageTypeOK
=============================================================================
