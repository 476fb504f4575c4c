------------------------------ MODULE Listing ------------------------------
(***************************************************************************)
(* What a list that is read page by page promises its reader, whatever is  *)
(* inserted, hidden, moved or deleted meanwhile.  Every page continues     *)
(* strictly after the last item of the page before it, so nothing is shown *)
(* twice unless it moved; and what it shows was there, and was asked for,  *)
(* while the page was being read.  Which items a page may leave out is not *)
(* said here.                                                              *)
(***************************************************************************)
EXTENDS Naturals

CONSTANT Item

VARIABLES
    key,        \* key[i]: the two fields the list is sorted by, in descending order
    open,       \* the items that anybody may be shown now
    wanted,     \* the items this reader has asked for, by following their authors
    pending,    \* a request for a page has been received and not been answered
    window,     \* what was open, and wanted, at some time since it was received
    shown,      \* the items the reader was shown
    moved,      \* those of them that got another key since
    floor       \* the key of the last item shown, <<>> before the first

vars == <<key, open, wanted, pending, window, shown, moved, floor>>

\* b comes after a.
After(a, b) == b[1] < a[1] \/ (b[1] = a[1] /\ b[2] < a[2])

Now == [open |-> open, wanted |-> wanted]

Init ==
    /\ key \in [Item -> Nat \X Nat]
    /\ open \in SUBSET Item /\ wanted \in SUBSET Item
    /\ pending = FALSE /\ window = Now
    /\ shown = {} /\ moved = {} /\ floor = <<>>

\* Everything but the reader.
Change ==
    /\ key' \in [Item -> Nat \X Nat]
    /\ open' \in SUBSET Item /\ wanted' \in SUBSET Item
    /\ moved' = moved \union {i \in shown : key'[i] # key[i]}
    /\ window' = IF pending THEN [open |-> window.open \union open',
                                  wanted |-> window.wanted \union wanted']
                 ELSE Now'
    /\ UNCHANGED <<pending, shown, floor>>

Ask ==
    /\ ~pending
    /\ pending' = TRUE /\ window' = Now
    /\ UNCHANGED <<key, open, wanted, shown, moved, floor>>

\* A request that takes one step is never seen pending.
Answer ==
    \E page \in SUBSET (window.open \intersect window.wanted) :
        /\ page \intersect shown \subseteq moved
        /\ \A i \in page : floor = <<>> \/ After(floor, key[i])
        /\ shown' = shown \union page
        /\ moved' = moved \ page
        /\ \/ page = {} /\ UNCHANGED floor
           \/ \E i \in page :
                 /\ \A j \in page \ {i} : After(key[j], key[i])
                 /\ floor' = key[i]
        /\ pending' = FALSE /\ window' = Now
        /\ UNCHANGED <<key, open, wanted>>

Next == Change \/ Ask \/ Answer

Spec == Init /\ [][Next]_vars
=============================================================================
