------------------------------ MODULE MCChatClient ------------------------------
(* Prompts at three characters per token, as client.py measures its own.  Of the   *)
(* replicas' windows, 3900 cuts the longer prompt below one token per 4.5          *)
(* characters, 4096 is a common size, and 32768 holds either prompt; the cuts of   *)
(* the shorter prompt are noticed by neither rule.                                 *)
EXTENDS ChatClient

Long == {"long", "longer"}
LongTokens == [q \in Long |-> IF q = "long" THEN 5200 ELSE 6000]
LongChars == [q \in Long |-> 3 * LongTokens[q]]

TwoWindows == {4096, 32768}
ThreeWindows == {3900, 4096, 32768}
Pauses == {0, 20, 40}
=============================================================================
