-------------------------- MODULE MCUploadService --------------------------
(* Small instances of UploadService. *)
EXTENDS UploadService

\* Zero, within 16 bits, and one past them
IntervalArgs == {0, 10, 65536, 65546}

\* Eighteen hours and some: zero in 16 bits
CutToZero == {65536}
=============================================================================
