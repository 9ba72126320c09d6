---------------------------- MODULE MCLiveSpeech ----------------------------
EXTENDS LiveSpeech

\* An answer in three utterances, one more than may wait, and one without a word.
ThreeThenSilent == <<3, 0>>

\* Two answers without a word.
SilentTwice == <<0, 0>>
=============================================================================
