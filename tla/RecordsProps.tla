---------------------------- MODULE RecordsProps ----------------------------
(***************************************************************************)
(* What the records of tool results promise.                               *)
(***************************************************************************)
EXTENDS Records

(* Rows have an owner and a text once they are created, and no page starts *)
(* behind its end, which would panic in ReadToolRecord.                    *)
RecTypeOK ==
    /\ recMax \in Settings /\ recBegun \in 0..MaxCalls /\ recBorn \in 0..recBegun /\ recFaults \in 0..MaxRecFaults
    /\ \A i \in RecIds : i <= recBorn <=> rec[i] # NoRecord
    /\ \A i \in 1..recBorn : rec[i].party \in Parties /\ rec[i].length >= 0
    /\ \A p \in Readers :
           /\ recReq[p].handle \in 0..recBorn /\ recReq[p].page.id \in 0..recBorn
           /\ recReq[p].page.to - recReq[p].page.from \in 0..LargestPage

(* "The omission notice counts towards the limit, the total does not       *)
(* exceed it": whatever wording is chosen and however many digits its      *)
(* numbers have, of a result as of a page (truncateToolResult).            *)
PreviewFits ==
    recMax > 0 =>
        \A p \in Readers :
            /\ ShownLength(recReq[p].preview) <= recMax
            /\ ShownLength(recReq[p].page.shown) <= recMax

(* A model that pages through the handle it was given, with pages of any   *)
(* sizes, until nothing more comes has got the whole result, although the  *)
(* runner wrote the row in between, or failed to; and what it gets it is   *)
(* shown in full as long as a result may be as long as a page.             *)
PagesAreTheWhole ==
    \A p \in Readers :
        LET r == recReq[p] IN
        /\ r.ended => r.got = r.size
        /\ recMax <= 0 \/ recMax >= LargestPage => r.page.shown = Whole(r.page.to - r.page.from)

(* Text is shown only to the session and user whose call produced it, and  *)
(* never to a request that belongs to no turn.                             *)
ReadsAreOwn ==
    \A p \in Readers :
        LET r == recReq[p] IN
        r.page.id # 0 => r.turn /\ rec[r.page.id].party = r.party
=============================================================================
