---------------------------- MODULE MCSessionFile ----------------------------
(* Instances of SessionFile for TLC.                                        *)
EXTENDS SessionFile

CONSTANTS e1, e2, x1, x2, t1, t2, r1, r2, b1, v1, c1

OneEntry == {e1}
TwoEntries == {e1, e2}
NoForeign == {}
OneForeign == {x1}
TwoForeign == {x1, x2}
OneTitle == {t1}
TwoTitles == {t1, t2}
OneRewrite == {r1}
TwoRewrites == {r1, r2}
OneBatch == {b1}
OneRecover == {v1}
OneClose == {c1}
NoCalls == {}
AllFaults == {"fails", "rejects", "owner", "seal"}
Plain == {}
FailsOnly == {"fails"}
WriteFaults == {"fails", "rejects"}
NoWriteFaults == {"owner", "seal"}
=============================================================================
