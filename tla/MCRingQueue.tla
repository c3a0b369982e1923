---- MODULE MCRingQueue ----
EXTENDS RingQueue
====
