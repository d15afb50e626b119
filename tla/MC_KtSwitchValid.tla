-------------------------- MODULE MC_KtSwitchValid --------------------------
EXTENDS KtSwitchValid

CONSTANTS c1, s1

MC_Controllers == {c1}
MC_SwitchIds == {s1}
\* SWITCH_VALID as the driver's create writes it: decimal digits.  Every
\* attribute valid, or every one valid but the IPv6 address (position 4),
\* which a switch without IPv6 reports as UNC_VF_INVALID.
Digits(flags) == [i \in DOMAIN flags |-> 48 + flags[i]]
MC_InitValid ==
    { Digits(<<1, 1, 1, 1, 1, 1, 1, 1, 1, 1, 1>>),
      Digits(<<1, 1, 1, 0, 1, 1, 1, 1, 1, 1, 1>>) }
\* A request that selects no attribute, or only the oper status (position 7).
MC_SelSets == { {}, {7} }
\* A '1' left in the buffer past the string.  A zeroed tail is not listed:
\* FrameValidValue decodes it as it decodes the shorter string.
MC_JunkBytes == {49}
\* Zero (compressible), a one-digit word, a four-digit word (0x2001, the
\* global unicast prefix) and 0xffff (the IPv4-mapped marker).
MC_Ipv6Words == {0, 1, 8193, 65535}
=============================================================================
