---------------------------- MODULE MCEntryGates ----------------------------
(***************************************************************************)
(* A small market for EntryGates: strikes 940 to 1000 around a spot of     *)
(* 1000, two expiries, quotes with wide, missing and one-sided books.      *)
(***************************************************************************)
EXTENDS EntryGates

Quote(k, d, b, a) == [strike |-> k, dte |-> d, bid |-> b, ask |-> a]

\* Any sub-list of these is a chain the broker may list.
Listing == {
    Quote(985, 14, 20, 22), Quote(980, 14, 16, 18), Quote(970, 14, 9, 10),
    Quote(970, 28, 14, 15), Quote(965, 14, 7, NoQuote), Quote(955, 14, 4, 0),
    Quote(950, 28, 4, 5), Quote(945, 14, 2, 2)}

MCChains == SUBSET Listing

MCHistories == {<<>>, <<14, 19>>, <<12, 14, 19>>, <<19, 21, 24>>}
MCCloses == {<<990>>, <<980, 1000>>, <<1010, 1030>>}

\* Drawdowns and gains of the paper account.
MCPnls == {-600, 0, 300}

\* Any decreasing function of the distance will do for the put delta.
MCDelta(sp, k, v, d) == 310 - 4 * (sp - k) + d + 2 * v
=============================================================================
