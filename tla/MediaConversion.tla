--------------------------- MODULE MediaConversion ---------------------------
(***************************************************************************)
(* The conversions of media-helpers.js: compressImage, generateThumbnail,  *)
(* captureVideoFrame and generatePdfThumbnail, several at a time.  Each is *)
(* one promise that the events of an <img>, <video>, canvas or script      *)
(* settle; an action is one event with its handler.  The pixels and        *)
(* encodings are left out, the sizes of the pictures are kept.             *)
(***************************************************************************)
EXTENDS Naturals, FiniteSets

CONSTANTS
    Task,          \* the conversions a page starts
    MaxDimension,  \* the longest side asked for
    MaxSide        \* bound: the longest side of a source

Side == 0 .. MaxSide
Size == [w : Side, h : Side]
NoSize == [w |-> 0, h |-> 0]
Images == {"compression", "thumbnail"}

VARIABLES
    kind,      \* what each task converts; "none" before it starts
    at,        \* what its element waits for
    promise,   \* the promise of each task
    unreadable,  \* the tasks whose source could not be decoded, or result not read
    objectUrls,  \* the tasks whose object URL exists
    timers,    \* the videos whose timeout runs
    source,    \* the size of each source, known once it is loaded
    canvas,    \* the size of the canvas drawn
    pdfJs,     \* the promise _pdfJsLoading: "none", "loading", "loaded", "failed"
    documents  \* the PDF documents that are open

vars == <<kind, at, promise, unreadable, objectUrls, timers, source, canvas, pdfJs,
          documents>>
pdfVars == <<pdfJs, documents>>
picture == <<source, canvas>>

TypeOK ==
    /\ kind \in [Task -> {"none", "compression", "thumbnail", "video", "pdf"}]
    /\ at \in [Task -> {"nothing", "load", "seek", "blob", "bytes", "script", "document", "page"}]
    /\ promise \in [Task -> {"pending", "resolved", "rejected"}]
    /\ unreadable \subseteq Task /\ objectUrls \subseteq Task /\ timers \subseteq Task
    /\ source \in [Task -> Size] /\ canvas \in [Task -> Size]
    /\ pdfJs \in {"none", "loading", "loaded", "failed"}
    /\ documents \subseteq Task

Init ==
    /\ kind = [t \in Task |-> "none"] /\ at = [t \in Task |-> "nothing"]
    /\ promise = [t \in Task |-> "pending"]
    /\ unreadable = {} /\ objectUrls = {} /\ timers = {}
    /\ source = [t \in Task |-> NoSize] /\ canvas = [t \in Task |-> NoSize]
    /\ pdfJs = "none" /\ documents = {}

\* A promise settles once.
Settle(t, outcome) ==
    promise' = [promise EXCEPT ![t] = IF @ = "pending" THEN outcome ELSE @]

-----------------------------------------------------------------------------
(* Images and videos.                                                      *)

StartImage(t) ==
    /\ kind[t] = "none"
    /\ \E k \in Images : kind' = [kind EXCEPT ![t] = k]
    /\ at' = [at EXCEPT ![t] = "load"]
    /\ objectUrls' = objectUrls \union {t}
    /\ UNCHANGED <<promise, unreadable, timers, picture, pdfVars>>

StartVideo(t) ==
    /\ kind[t] = "none"
    /\ kind' = [kind EXCEPT ![t] = "video"] /\ at' = [at EXCEPT ![t] = "load"]
    /\ objectUrls' = objectUrls \union {t} /\ timers' = timers \union {t}
    /\ UNCHANGED <<promise, unreadable, picture, pdfVars>>

\* Math.round(a * b / c).
Scale(a, b, c) == (2 * a * b + c) \div (2 * c)

\* A mutant: the longer side is not the one compared.
ScaledByWidth(s) ==
    IF s.w > MaxDimension
    THEN [w |-> MaxDimension, h |-> Scale(s.h, MaxDimension, s.w)]
    ELSE s

\* The size with the longer side at most MaxDimension.
Scaled(s) ==
    CASE s.w > s.h /\ s.w > MaxDimension ->
            [w |-> MaxDimension, h |-> Scale(s.h, MaxDimension, s.w)]
      [] s.w <= s.h /\ s.h > MaxDimension ->
            [w |-> Scale(s.w, MaxDimension, s.h), h |-> MaxDimension]
      [] OTHER -> s

\* Drawn on a canvas of the scaled size, whose toBlob is asked for.
Drawn(t, s) ==
    /\ source' = [source EXCEPT ![t] = s]
    /\ canvas' = [canvas EXCEPT ![t] = Scaled(s)]
    /\ objectUrls' = objectUrls \ {t}
    /\ at' = [at EXCEPT ![t] = "blob"]

\* img.onload.
ImageLoaded(t) ==
    /\ kind[t] \in Images /\ at[t] = "load"
    /\ \E s \in Size : s.w # 0 /\ s.h # 0 /\ Drawn(t, s)
    /\ UNCHANGED <<kind, promise, unreadable, timers, pdfVars>>

\* img.onerror, which keeps the object URL, or video.onerror.
LoadError(t) ==
    /\ \/ kind[t] \in Images /\ at[t] = "load"
       \/ kind[t] = "video" /\ at[t] \in {"load", "seek"}
    /\ at' = [at EXCEPT ![t] = "nothing"]
    /\ unreadable' = unreadable \union {t}
    /\ timers' = timers \ {t}
    /\ objectUrls' = IF kind[t] = "video" THEN objectUrls \ {t} ELSE objectUrls
    /\ Settle(t, "rejected")
    /\ UNCHANGED <<kind, picture, pdfVars>>

\* A mutant: the timeout ends when the data is there.
VideoLoadedInTime(t) ==
    /\ kind[t] = "video" /\ at[t] = "load"
    /\ at' = [at EXCEPT ![t] = "seek"]
    /\ timers' = timers \ {t}
    /\ UNCHANGED <<kind, promise, unreadable, objectUrls, picture, pdfVars>>

\* video.onloadeddata.
VideoLoaded(t) ==
    /\ kind[t] = "video" /\ at[t] = "load"
    /\ at' = [at EXCEPT ![t] = "seek"]
    /\ UNCHANGED <<kind, promise, unreadable, objectUrls, timers, picture, pdfVars>>

\* video.onseeked, possibly after the timeout; an audio track alone has no size.
VideoSeeked(t) ==
    /\ kind[t] = "video" /\ at[t] = "seek"
    /\ timers' = timers \ {t}
    /\ \E s \in Size : (s.w = 0 <=> s.h = 0) /\ Drawn(t, s)
    /\ UNCHANGED <<kind, promise, unreadable, pdfVars>>

\* A mutant: the object URL is left to the event handlers.
TimedOutKeeping(t) ==
    /\ t \in timers
    /\ timers' = timers \ {t}
    /\ Settle(t, "rejected")
    /\ UNCHANGED <<kind, at, unreadable, objectUrls, picture, pdfVars>>

\* Ten seconds have passed.
TimedOut(t) ==
    /\ t \in timers
    /\ timers' = timers \ {t} /\ objectUrls' = objectUrls \ {t}
    /\ Settle(t, "rejected")
    /\ UNCHANGED <<kind, at, unreadable, picture, pdfVars>>

\* The callback of toBlob: null for an empty canvas, or when encoding fails.
Encoded(t) ==
    /\ at[t] = "blob"
    /\ \/ /\ canvas[t].w # 0 /\ canvas[t].h # 0
          /\ at' = [at EXCEPT ![t] = "bytes"]
          /\ UNCHANGED promise
       \/ /\ at' = [at EXCEPT ![t] = "nothing"]
          /\ Settle(t, "rejected")
    /\ UNCHANGED <<kind, unreadable, objectUrls, timers, picture, pdfVars>>

\* The encoded picture has been read, or cannot be: the FileReader of a
\* thumbnail then rejects, arrayBuffer has no handler for it.
BytesRead(t) ==
    /\ at[t] = "bytes"
    /\ at' = [at EXCEPT ![t] = "nothing"]
    /\ \/ Settle(t, "resolved") /\ UNCHANGED unreadable
       \/ /\ unreadable' = unreadable \union {t}
          /\ IF kind[t] = "compression" THEN UNCHANGED promise ELSE Settle(t, "rejected")
    /\ UNCHANGED <<kind, objectUrls, timers, picture, pdfVars>>

-----------------------------------------------------------------------------
(* PDF documents.                                                          *)

\* _loadPdfJs adds the script once; a rejected promise is kept as well.
LoadPdfJs == pdfJs' = IF pdfJs = "none" THEN "loading" ELSE pdfJs

StartPdf(t) ==
    /\ kind[t] = "none"
    /\ kind' = [kind EXCEPT ![t] = "pdf"] /\ at' = [at EXCEPT ![t] = "script"]
    /\ LoadPdfJs
    /\ UNCHANGED <<promise, unreadable, objectUrls, timers, picture, documents>>

ScriptEvent ==
    /\ pdfJs = "loading"
    /\ pdfJs' \in {"loaded", "failed"}
    /\ UNCHANGED <<kind, at, promise, unreadable, objectUrls, timers, picture, documents>>

\* The await of _loadPdfJs ends.
ScriptAwaited(t) ==
    /\ at[t] = "script" /\ pdfJs \in {"loaded", "failed"}
    /\ at' = [at EXCEPT ![t] = IF pdfJs = "loaded" THEN "document" ELSE "nothing"]
    /\ IF pdfJs = "loaded" THEN UNCHANGED promise ELSE Settle(t, "rejected")
    /\ UNCHANGED <<kind, unreadable, objectUrls, timers, picture, pdfVars>>

\* Fetching and opening; a failure resolves with null.
DocumentOpened(t) ==
    /\ at[t] = "document"
    /\ \/ /\ at' = [at EXCEPT ![t] = "page"] /\ documents' = documents \union {t}
          /\ UNCHANGED <<promise, unreadable>>
       \/ /\ at' = [at EXCEPT ![t] = "nothing"] /\ unreadable' = unreadable \union {t}
          /\ Settle(t, "resolved")
          /\ UNCHANGED documents
    /\ UNCHANGED <<kind, objectUrls, timers, picture, pdfJs>>

\* The first page is rendered and the document destroyed; when rendering fails,
\* it resolves with null and the document stays open.
PageRendered(t) ==
    /\ at[t] = "page"
    /\ at' = [at EXCEPT ![t] = "nothing"]
    /\ Settle(t, "resolved")
    /\ \/ documents' = documents \ {t} /\ UNCHANGED unreadable
       \/ unreadable' = unreadable \union {t} /\ UNCHANGED documents
    /\ UNCHANGED <<kind, objectUrls, timers, picture, pdfJs>>

-----------------------------------------------------------------------------

Start(t) == StartImage(t) \/ StartVideo(t) \/ StartPdf(t)

\* An event that the browser is bound to deliver.
Event(t) == \/ ImageLoaded(t) \/ Encoded(t) \/ BytesRead(t) \/ TimedOut(t)
            \/ ScriptAwaited(t) \/ DocumentOpened(t) \/ PageRendered(t)
            \/ kind[t] \in Images /\ LoadError(t)

Next ==
    \/ \E t \in Task : Start(t) \/ Event(t)
    \/ \E t \in Task : VideoLoaded(t) \/ VideoSeeked(t) \/ LoadError(t)
    \/ ScriptEvent

\* An image or a script either loads or fails, a canvas answers and a timer
\* runs out.  A video may stall, as the timeout supposes.
Fairness == WF_vars(ScriptEvent) /\ \A t \in Task : WF_vars(Event(t))

Spec == Init /\ [][Next]_vars /\ Fairness

-----------------------------------------------------------------------------

Settled(t) == promise[t] # "pending"

\* Every conversion settles, so that the page never waits for ever with its
\* message unsent, even when a video stalls before or after its data is loaded
\* (the timeout, which only onseeked and onerror clear); all but the compression
\* whose result cannot be read.
ConversionsSettle ==
    \A t \in Task : kind[t] # "none" ~> Settled(t) \/ (kind[t] = "compression" /\ t \in unreadable)

\* Whatever is too late for the timeout, a settled conversion has released its
\* object URL, unless its image could not be decoded (onload, onseeked, the
\* timeout).
UrlsReleased ==
    \A t \in Task : Settled(t) /\ ~(kind[t] \in Images /\ t \in unreadable) => t \notin objectUrls

\* A picture that is handed out is not empty, fits into the size asked for, and
\* is the source itself if that fits (the rounding of thin pictures).
FitsSize ==
    \A t \in Task : kind[t] \in Images \union {"video"} /\ promise[t] = "resolved" =>
        /\ canvas[t].w \in 1 .. MaxDimension /\ canvas[t].h \in 1 .. MaxDimension
        /\ source[t].w <= MaxDimension /\ source[t].h <= MaxDimension => canvas[t] = source[t]
=============================================================================
