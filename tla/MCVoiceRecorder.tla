--------------------------- MODULE MCVoiceRecorder ---------------------------
EXTENDS VoiceRecorder
=============================================================================
