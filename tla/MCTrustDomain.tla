--------------------------- MODULE MCTrustDomain ---------------------------
EXTENDS TrustDomain

CONSTANTS ha, hb, guest

\* Hosts whose blocks differ: the last difference decides, so that a fork may
\* change sides when it grows.
MCHashGeq(f, g) ==
    LET diff == {i \in 1..Len(f) : f[i] # g[i]}
        x == f[LastOf(diff)]
        y == g[LastOf(diff)]
    IN diff = {} \/ (IF x.by # y.by THEN x.by = ha
                     ELSE IF x.ckpt # y.ckpt THEN x.ckpt > y.ckpt
                     ELSE x.rec.who = hb)

MCOrigin == << [by |-> ha, rec |-> [op |-> "admit", who |-> hb], ckpt |-> 0],
               [by |-> ha, rec |-> [op |-> "note", who |-> "nobody"], ckpt |-> 0] >>

MCCommands == [h \in Hosts |-> IF h = ha THEN [op : {"revoke"}, who : {hb, guest}] ELSE [op : {"note"}, who : {"nobody"}]]
=============================================================================
