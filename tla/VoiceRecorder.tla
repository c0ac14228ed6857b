---------------------------- MODULE VoiceRecorder ----------------------------
(***************************************************************************)
(* voice-recorder.js, a single object of the page, under the Blazor        *)
(* component VoiceRecorder.  Recording n is the n-th use of the component, *)
(* with the microphone stream, MediaRecorder and timers made for it; the   *)
(* fields of the object are shared by all of them.                         *)
(*                                                                         *)
(* An action is one call of the object or one event of the browser, run to *)
(* its end or to its next await.  The samples of the waveform and the      *)
(* playing of the preview are left out.                                    *)
(***************************************************************************)
EXTENDS Naturals, FiniteSets

CONSTANTS
    MaxRecordings   \* bound: uses of the component

Recording == 1 .. MaxRecordings
None == 0

VARIABLES
    comp,       \* the component of each recording
    asking,     \* the recordings whose start() awaits getUserMedia
    recorder,   \* the state of each MediaRecorder
    mics,       \* the streams with live tracks
    intervals,  \* the duration timers that run
    contexts,   \* the audio contexts, with their amplitude timers, that run
    analyses,   \* the recordings whose blob is being decoded
    urls,       \* the object URLs not revoked, by the recording they were made for
    voice,      \* the fields of window.voiceRecorder
    sent,       \* history: the recordings heard in what each component sent
    astray      \* history: the recordings of which one was started before the other
                \*   had ended, and those that failed with no component to cancel them

vars == <<comp, asking, recorder, mics, intervals, contexts, analyses, urls, voice, sent, astray>>

Fields == [dotNetRef : Recording \union {None}, stream : Recording \union {None},
           mediaRecorder : Recording \union {None}, chunks : SUBSET Recording,
           durationTimer : Recording \union {None}, context : Recording \union {None},
           blob : SUBSET Recording, blobUrl : Recording \union {None}]

TypeOK ==
    /\ comp \in [Recording -> {"unused", "recording", "preview", "sending", "leaving", "gone"}]
    /\ asking \subseteq Recording
    /\ recorder \in [Recording -> {"none", "recording", "stopping", "inactive"}]
    /\ mics \subseteq Recording /\ intervals \subseteq Recording
    /\ contexts \subseteq Recording /\ analyses \subseteq Recording
    /\ urls \subseteq Recording
    /\ voice \in Fields /\ (voice.blob = {} <=> voice.blobUrl = None)
    /\ sent \in [Recording -> SUBSET Recording] /\ astray \subseteq Recording

Init ==
    /\ comp = [n \in Recording |-> "unused"]
    /\ asking = {} /\ mics = {} /\ intervals = {} /\ contexts = {}
    /\ analyses = {} /\ urls = {}
    /\ recorder = [n \in Recording |-> "none"]
    /\ voice = [dotNetRef |-> None, stream |-> None, mediaRecorder |-> None,
                chunks |-> {}, durationTimer |-> None, context |-> None,
                blob |-> {}, blobUrl |-> None]
    /\ sent = [n \in Recording |-> {}] /\ astray = {}

-----------------------------------------------------------------------------
(* The helpers of the object.  Each takes the page's browser objects and   *)
(* fields as one record and returns them changed.                          *)

Page == [recorder |-> recorder, mics |-> mics, intervals |-> intervals,
         contexts |-> contexts, urls |-> urls, f |-> voice]

Becomes(p) ==
    /\ recorder' = p.recorder /\ mics' = p.mics /\ intervals' = p.intervals
    /\ contexts' = p.contexts /\ urls' = p.urls /\ voice' = p.f

ClearTimer(p) ==
    [p EXCEPT !.intervals = @ \ {p.f.durationTimer}, !.f.durationTimer = None]

StopAmplitudeCapture(p) ==
    [p EXCEPT !.contexts = @ \ {p.f.context}, !.f.context = None]

\* A recorder whose tracks have ended stops by itself.
StopTracks(p) ==
    [p EXCEPT !.mics = @ \ {p.f.stream},
              !.recorder = [n \in Recording |->
                  IF n = p.f.stream /\ @[n] = "recording" THEN "stopping" ELSE @[n]],
              !.f.stream = None]

\* A mutant: the URL is revoked and the blob kept.
RevokeUrl(p) == [p EXCEPT !.urls = @ \ {p.f.blobUrl}, !.f.blobUrl = None]

RevokePreview(p) ==
    [p EXCEPT !.urls = @ \ {p.f.blobUrl}, !.f.blobUrl = None, !.f.blob = {}]

Cleanup(p) ==
    LET q == StopTracks(StopAmplitudeCapture(RevokePreview(p)))
    IN  [q EXCEPT !.f.mediaRecorder = None, !.f.chunks = {}]

IsRecording(p) == p.f.mediaRecorder # None /\ p.recorder[p.f.mediaRecorder] = "recording"

StopRecorder(p) == [p EXCEPT !.recorder[p.f.mediaRecorder] = "stopping"]

Stop(p) ==
    LET q == ClearTimer(p) IN IF IsRecording(q) THEN StopRecorder(q) ELSE q

Cancel(p) ==
    LET q == [StopAmplitudeCapture(ClearTimer(p)) EXCEPT !.f.chunks = {}]
    IN  IF IsRecording(q) THEN StopRecorder(q) ELSE Cleanup(q)

-----------------------------------------------------------------------------
(* The component.                                                          *)

\* Recording n awaits its microphone, records, or has events on their way.
Pending(n) == n \in asking \union analyses \/ recorder[n] \in {"recording", "stopping"}

\* The components that are shown (a component that sends is about to leave).
Shown(n) == comp[n] \in {"recording", "preview", "leaving"}

\* A mutant: start keeps the chunks there are.
StartedKeeping(n, p) == [RevokePreview(p) EXCEPT !.f.dotNetRef = n]

\* start() up to its await.
Started(n, p) == [RevokePreview(p) EXCEPT !.f.dotNetRef = n, !.f.chunks = {}]

\* MessageInput shows the component, which calls start, whatever of an earlier
\* recording is still to come.
Start(n) ==
    /\ comp[n] = "unused" /\ \A k \in Recording : k < n => comp[k] = "gone"
    /\ comp' = [comp EXCEPT ![n] = "recording"]
    /\ asking' = asking \union {n}
    /\ Becomes(Started(n, Page))
    /\ LET others == {k \in Recording : Pending(k)}
       IN  astray' = astray \union (IF others = {} THEN {} ELSE others \union {n})
    /\ UNCHANGED <<analyses, sent>>

\* start() after its await, whether or not the component is still shown: first
\* the stream, which a MediaRecorder may refuse.
Acquired(n, p) == [p EXCEPT !.mics = @ \union {n}, !.f.stream = n]

\* A mutant: no timer limits the duration.
PreparedUntimed(n, p, audio) ==
    [Acquired(n, p) EXCEPT
        !.recorder[n] = "inactive", !.f.mediaRecorder = n,
        !.contexts = @ \union audio, !.f.context = IF audio = {} THEN @ ELSE n]

\* Then all but the start of the MediaRecorder, which may fail; the audio
\* context may be missing.
Prepared(n, p, audio) ==
    [Acquired(n, p) EXCEPT
        !.recorder[n] = "inactive", !.f.mediaRecorder = n,
        !.contexts = @ \union audio, !.f.context = IF audio = {} THEN @ ELSE n,
        !.intervals = @ \union {n}, !.f.durationTimer = n]

Granted(n) ==
    /\ n \in asking
    /\ asking' = asking \ {n}
    /\ \E audio \in {{}, {n}} :
         Becomes([Prepared(n, Page, audio) EXCEPT !.recorder[n] = "recording"])
    /\ UNCHANGED <<comp, analyses, sent, astray>>

\* start() rejects: its component has the parent hide the component it shows,
\* even if that is another; a parent that is gone hides nothing.
Rejected(n) ==
    \/ comp' = [k \in Recording |-> IF Shown(k) THEN "leaving" ELSE comp[k]]
    \/ comp[n] = "gone" /\ UNCHANGED comp

\* The stream is there and cannot be recorded.
Unrecordable(n) ==
    /\ n \in asking
    /\ asking' = asking \ {n}
    /\ \E p \in {Acquired(n, Page)} \union {Prepared(n, Page, audio) : audio \in {{}, {n}}} :
         Becomes(p)
    /\ Rejected(n)
    /\ astray' = IF comp[n] = "gone" THEN astray \union {n} ELSE astray
    /\ UNCHANGED <<analyses, sent>>

\* The microphone is refused.
Denied(n) ==
    /\ n \in asking
    /\ asking' = asking \ {n}
    /\ Rejected(n)
    /\ UNCHANGED <<recorder, mics, intervals, contexts, analyses, urls, voice, sent, astray>>

\* The stop button, or the component's own count of five minutes.
StopRecording(n) ==
    /\ comp[n] = "recording" /\ n \notin asking
    /\ Becomes(Stop(Page))
    /\ UNCHANGED <<comp, asking, analyses, sent, astray>>

\* The trash button while recording.
CancelRecording(n) ==
    /\ comp[n] = "recording"
    /\ comp' = [comp EXCEPT ![n] = "leaving"]
    /\ Becomes(Cancel(Page))
    /\ UNCHANGED <<asking, analyses, sent, astray>>

\* The trash button of the preview.
Delete(n) ==
    /\ comp[n] = "preview"
    /\ comp' = [comp EXCEPT ![n] = "leaving"]
    /\ Becomes(RevokePreview(Page))
    /\ UNCHANGED <<asking, analyses, sent, astray>>

\* Send with the bytes of the blob; nothing happens without a blob.
Send(n) ==
    /\ comp[n] = "preview" /\ voice.blob # {}
    /\ comp' = [comp EXCEPT ![n] = "sending"]
    /\ sent' = [sent EXCEPT ![n] = voice.blob]
    /\ UNCHANGED <<asking, recorder, mics, intervals, contexts, analyses, urls, voice, astray>>

\* The rest of Send: the preview is revoked and the parent takes the component
\* away.
Sent(n) ==
    /\ comp[n] = "sending"
    /\ comp' = [comp EXCEPT ![n] = "leaving"]
    /\ Becomes(RevokePreview(Page))
    /\ UNCHANGED <<asking, analyses, sent, astray>>

\* DisposeAsync, after the above or because the user leaves the page (not
\* during Send, which takes no time to speak of).
Dispose(n) ==
    /\ Shown(n)
    /\ comp' = [comp EXCEPT ![n] = "gone"]
    /\ Becomes(Cancel(Page))
    /\ UNCHANGED <<asking, analyses, sent, astray>>

-----------------------------------------------------------------------------
(* Events of the browser.                                                  *)

\* ondataavailable, once a second.
Chunk(n) ==
    /\ recorder[n] = "recording"
    /\ voice' = [voice EXCEPT !.chunks = @ \union {n}]
    /\ UNCHANGED <<comp, asking, recorder, mics, intervals, contexts, analyses, urls, sent, astray>>

\* The interval of recording n finds five minutes over.
Elapsed(n) ==
    /\ n \in intervals
    /\ Becomes(Stop(Page))
    /\ UNCHANGED <<comp, asking, analyses, sent, astray>>

\* A mutant: onstop leaves the amplitude capture to cancel.
StoppedListening(n, p) == StopTracks(ClearTimer([p EXCEPT !.recorder[n] = "inactive"]))

\* onstop up to the question whether there is any audio.
Stopped(n, p) ==
    StopTracks(StopAmplitudeCapture(ClearTimer([p EXCEPT !.recorder[n] = "inactive"])))

\* The last data, which may be empty, and onstop, in one task.
StopEvent(n) ==
    /\ recorder[n] = "stopping"
    /\ \E last \in SUBSET {n} :
         LET p == [Stopped(n, Page) EXCEPT !.f.chunks = @ \union last]
         IN  IF p.f.chunks = {}
             THEN Becomes(Cleanup(p)) /\ UNCHANGED analyses
             ELSE /\ Becomes([p EXCEPT !.f.blob = p.f.chunks, !.f.blobUrl = n,
                                       !.urls = @ \union {n}])
                  /\ analyses' = analyses \union {n}
    /\ UNCHANGED <<comp, asking, sent, astray>>

\* The blob is decoded, or cannot be: either way the component that started
\* last is told that its recording has stopped.
Analysed(n) ==
    /\ n \in analyses
    /\ analyses' = analyses \ {n}
    /\ comp' = [comp EXCEPT ![voice.dotNetRef] = IF @ = "recording" THEN "preview" ELSE @]
    /\ UNCHANGED <<asking, recorder, mics, intervals, contexts, urls, voice, sent, astray>>

-----------------------------------------------------------------------------

Next == \E n \in Recording :
    \/ Start(n) \/ Granted(n) \/ Unrecordable(n) \/ Denied(n)
    \/ StopRecording(n) \/ CancelRecording(n) \/ Delete(n) \/ Send(n) \/ Sent(n)
    \/ Dispose(n)
    \/ Chunk(n) \/ Elapsed(n) \/ StopEvent(n) \/ Analysed(n)

\* Time passes and events arrive; a component that was cancelled is taken away.
\* Nothing makes the user answer the prompt or press a button.
Fairness == \A n \in Recording :
    /\ WF_vars(Elapsed(n)) /\ WF_vars(StopEvent(n)) /\ WF_vars(Analysed(n))
    /\ WF_vars(Sent(n)) /\ WF_vars(comp[n] = "leaving" /\ Dispose(n))

Spec == Init /\ [][Next]_vars /\ Fairness

-----------------------------------------------------------------------------

\* Every recording stops, if only after five minutes, whatever the user cancels,
\* leaves or never stops (spec 008, FR-028).
EveryRecordingStops ==
    \A n \in Recording : recorder[n] = "recording" ~> recorder[n] # "recording"

\* Which microphones stay open: those of recordings started before another had
\* ended, and one granted to a component that is gone and refused by its
\* MediaRecorder.  Every other is released, whoever stops or cancels what, also
\* after uses that went astray (stop, cancel, onstop, the duration timer).
MicrophoneReleased == \A n \in Recording : n \in mics ~> n \notin mics \/ n \in astray

\* A recording begun after all earlier ones had ended sends nothing of them, nor
\* of one that was cancelled (the chunks and the blob are shared).
SendsOwnAudio == \A n \in Recording \ astray : sent[n] \subseteq {n}

\* When every component is gone and no event is pending, a timer, context or
\* stream left behind is of a recording that went astray: every other found its
\* handle in the fields.  Only one other object URL may be left.
AllReleased ==
    (\A n \in Recording : comp[n] \in {"unused", "gone"} /\ ~Pending(n)) =>
        /\ mics \union intervals \union contexts \subseteq astray
        /\ urls \subseteq astray \union {voice.blobUrl}
=============================================================================
