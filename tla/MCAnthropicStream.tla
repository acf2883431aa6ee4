--------------------------- MODULE MCAnthropicStream ---------------------------
\* Instances of a streamed answer for TLC.
EXTENDS AnthropicStream

TwoTools == {0, 1}
OneCount == {7}
=============================================================================
