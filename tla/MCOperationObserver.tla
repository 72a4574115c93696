------------------------ MODULE MCOperationObserver ------------------------
EXTENDS OperationObserver

CONSTANTS s1, s2

\* Two streams: one reconnect.
TwoStreams == <<s1, s2>>
=============================================================================
