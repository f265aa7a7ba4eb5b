---------------------------- MODULE MCFtpSession ----------------------------
(* Model-checking instances of FtpSession.                                   *)
EXTENDS FtpSession, TLC

\* The paths are interchangeable.
MCSymmetry == Permutations(Path)

=============================================================================
