--------------------------- MODULE MCActionReplies ---------------------------
(***************************************************************************)
(* TLC instances of ActionReplies.                                         *)
(***************************************************************************)
EXTENDS ActionReplies

\* malloc_usable_size of glibc on 64 bits: chunks of a multiple of 16 bytes
\* and at least 32, of which 8 are the allocator's.
GlibcUsable(n) == IF n <= 24 THEN 24 ELSE ((n + 23) \div 16) * 16 - 8

\* Codes of one character, at the edges of five and of eleven, and the
\* sample's 201.
MCCodes == {0, 201, 99999, 100000, -9999, -10000, 2147483647, -2147483647}

\* Ports of one, four and five digits: the least, the usual two and the
\* greatest.
MCPorts == {1, 1883, 8883, 65535}
=============================================================================
