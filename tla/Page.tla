-------------------------------- MODULE Page --------------------------------
(* The scripts of the page, which share no state: a behaviour picks one and  *)
(* leaves the others in their initial states, where none of their fair       *)
(* actions is enabled.  The tokens are extended, the other scripts are       *)
(* instances.                                                                *)
EXTENDS AuthTokens

CONSTANTS
    MaxRecordings,                               \* of VoiceRecorder
    Asset, Static, Offline, Fetches, MaxVersion, \* of ServiceWorker
    Task, MaxDimension, MaxSide                  \* of MediaConversion

ASSUME PageAssumption ==
    /\ MaxRecordings \in Nat /\ MaxDimension \in Nat /\ MaxSide \in Nat
    /\ MaxVersion \in Nat \ {0} /\ Offline \in Static /\ Static \subseteq Asset

VARIABLES comp, asking, recorder, mics, intervals, contexts, analyses, urls, voice, sent,
          astray,
          deployed, worker, caches, request, puts,
          kind, at, promise, unreadable, objectUrls, timers, source, canvas, pdfJs,
          documents,
          script

Voice == INSTANCE VoiceRecorder
Worker == INSTANCE ServiceWorker WITH Request <- Fetches
Media == INSTANCE MediaConversion

voiceVars == <<comp, asking, recorder, mics, intervals, contexts, analyses, urls, voice, sent,
              astray>>
workerVars == <<deployed, worker, caches, request, puts>>
mediaVars == <<kind, at, promise, unreadable, objectUrls, timers, source, canvas, pdfJs,
              documents>>
pageVars == <<voiceVars, workerVars, vars, mediaVars, script>>

PageInit ==
    /\ Voice!Init /\ Worker!Init /\ Init /\ Media!Init
    /\ script \in {"voice", "worker", "tokens", "media"}

PageNext ==
    /\ \/ /\ script = "voice" /\ Voice!Next
          /\ UNCHANGED <<workerVars, vars, mediaVars>>
       \/ /\ script = "worker" /\ Worker!Next
          /\ UNCHANGED <<voiceVars, vars, mediaVars>>
       \/ /\ script = "tokens" /\ Next
          /\ UNCHANGED <<voiceVars, workerVars, mediaVars>>
       \/ /\ script = "media" /\ Media!Next
          /\ UNCHANGED <<voiceVars, workerVars, vars>>
    /\ UNCHANGED script

PageSpec == PageInit /\ [][PageNext]_pageVars /\ Voice!Fairness /\ Fairness /\ Media!Fairness

PageTypeOK == Voice!TypeOK /\ Worker!TypeOK /\ TypeOK /\ Media!TypeOK
SendsOwnAudio == Voice!SendsOwnAudio
AllReleased == Voice!AllReleased
MicrophoneReleased == Voice!MicrophoneReleased
StaticFresh == Worker!StaticFresh
UrlsReleased == Media!UrlsReleased
FitsSize == Media!FitsSize
ConversionsSettle == Media!ConversionsSettle
=============================================================================
