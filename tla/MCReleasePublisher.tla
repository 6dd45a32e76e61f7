------------------------- MODULE MCReleasePublisher -------------------------
(* Small instances of ReleasePublisher: three runs, of which the first and *)
(* the third (a re-run) build the same commit.                             *)
EXTENDS ReleasePublisher

CONSTANTS c1, c2

MCCommits == {c1, c2}
MCSource == [r \in Runs |-> IF r = 2 THEN c2 ELSE c1]

(* Both channels in one run: the one the cfg describes, and the display    *)
(* channel, which does not replace, on a GitHub that lists drafts.         *)
VARIABLE display \* the behaviour is one of the display channel

Display == INSTANCE ReleasePublisher WITH ReplaceExisting <- FALSE, DraftsListed <- TRUE

BothInit == \/ display = FALSE /\ Init
            \/ display = TRUE /\ Display!Init

BothNext == \/ ~display /\ Next /\ UNCHANGED display
            \/ display /\ Display!Next /\ UNCHANGED display

BothSpec == BothInit /\ [][BothNext]_<<vars, display>>
              /\ WF_vars(~display /\ Work) /\ WF_vars(display /\ Display!Work)

(* EveryRunSettles, of a channel that replaces: a leftover stops the other *)
(* one, which is what preflight is for.                                    *)
ReplacingSettles == display \/ EveryRunSettles
=============================================================================
