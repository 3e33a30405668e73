----------------------------- MODULE MCLineWords -----------------------------
(* LineWords for TLC.  The bytes: separators, a control character and the   *)
(* one after tilde, a capital, the digits of 65535 and 65536 and the        *)
(* character before the digits.  Lines of up to one byte too many; two      *)
(* words are the most, so that a third fits.                                *)
EXTENDS LineWords

MCBytes == {LF, 9, 31, 32, 47, 48, 51, 53, 54, 90, 127}
=============================================================================
