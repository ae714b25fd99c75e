---------------------------- MODULE CartRowProofs ----------------------------
(***************************************************************************)
(* Facts about one row and about writing it, shared by the proofs of the   *)
(* models that write rows.                                                 *)
(***************************************************************************)
EXTENDS CartRow, TLAPS

\* Every row the actions write is well formed and leaves purchase_closed alone.
LEMMA RowFacts ==
  ASSUME NEW r \in Row, NEW c,
         NEW n \in {ExpiredRow(r), CancelledRow(r, "store_cancelled"),
                    CancelledRow(r, "erp_cancelled"), CancelledRow(r, "refunded"),
                    PaidRow(r), RestoredRow(r), ReviewRow(r), ReopenedRow(c, r),
                    RegeneratedRow(r), [r EXCEPT !.pay = "refunded"],
                    [r EXCEPT !.pay = "pending"]}
  PROVE  n \in Row /\ n.closed = r.closed
<1>. USE DEF Row, Open, Terminated, HumanCancel, Settled
<1>1. PaidRow(r) \in Row /\ PaidRow(r).closed = r.closed  BY DEF PaidRow
<1>2. RestoredRow(r) \in Row /\ RestoredRow(r).closed = r.closed
  BY <1>1 DEF RestoredRow
<1>3. ReopenedRow(c, r) \in Row /\ ReopenedRow(c, r).closed = r.closed
  BY DEF ReopenedRow
<1>4. ExpiredRow(r) \in Row /\ ExpiredRow(r).closed = r.closed  BY DEF ExpiredRow
<1>5. ASSUME NEW why \in {"store_cancelled", "erp_cancelled", "refunded"}
      PROVE  CancelledRow(r, why) \in Row /\ CancelledRow(r, why).closed = r.closed
  BY DEF CancelledRow
<1>6. ReviewRow(r) \in Row /\ ReviewRow(r).closed = r.closed  BY DEF ReviewRow
<1>7. RegeneratedRow(r) \in Row /\ RegeneratedRow(r).closed = r.closed
  BY DEF RegeneratedRow
<1>8. ASSUME NEW p \in {"refunded", "pending"}
      PROVE  [r EXCEPT !.pay = p] \in Row /\ [r EXCEPT !.pay = p].closed = r.closed
  OBVIOUS
<1>. QED  BY <1>1, <1>2, <1>3, <1>4, <1>5, <1>6, <1>7, <1>8

\* A row write replaces the row and may only close the purchases joined to it.
LEMMA WriteRowShape ==
  ASSUME NEW R \in [Carts -> Row], NEW c \in Carts, NEW r \in Row,
         NEW S, S = WriteRow(R, c, r)
  PROVE  /\ S \in [Carts -> Row]
         /\ S[c] = r
         /\ \A x \in Carts \ {c} : /\ S[x].status = R[x].status
                                  /\ S[x].reason = R[x].reason
                                  /\ S[x].pay = R[x].pay
                                  /\ S[x].deadline = R[x].deadline
                                  /\ S[x].review = R[x].review
<1>1. \A x \in Carts : S[x] = IF x = c THEN r
                             ELSE IF Owner[x] = c /\ Closes(r)
                             THEN [R[x] EXCEPT !.closed = TRUE] ELSE R[x]
  BY DEF WriteRow
<1>2. \A x \in Carts : R[x] \in Row /\ [R[x] EXCEPT !.closed = TRUE] \in Row
  BY DEF Row
<1>3. S \in [Carts -> Row]  BY <1>2 DEF WriteRow
<1>4. ASSUME NEW x \in Carts \ {c}
      PROVE  /\ S[x].status = R[x].status /\ S[x].reason = R[x].reason
             /\ S[x].pay = R[x].pay /\ S[x].review = R[x].review
             /\ S[x].deadline = R[x].deadline
  <2>1. S[x] = R[x] \/ S[x] = [R[x] EXCEPT !.closed = TRUE]  BY <1>1
  <2>2. R[x] \in Row  BY <1>2
  <2>. QED  BY <2>1, <2>2 DEF Row
<1>. QED  BY <1>1, <1>3, <1>4
=============================================================================
