----------------------------- MODULE MCCarriers -----------------------------
(***************************************************************************)
(* The proofs and the manifest stores that go round in the run.            *)
(***************************************************************************)
EXTENDS Carriers

Theirs == [Own EXCEPT !.of = "theirs"]
Stripped == [Own EXCEPT !.colour = "amber"]
SmallPayloads ==
  { Own, Stripped, [Own EXCEPT !.form = "rewritten"], Theirs,
    [Theirs EXCEPT !.reads = "not_JSON"], [Theirs EXCEPT !.reads = "throws"] }

Of(proof, parent) == [kind |-> "plain", proof |-> proof, parent |-> parent]
StoreOf(manifests) == [read |-> TRUE, manifests |-> manifests]

\* A proof in the active manifest, one or two levels up, past a manifest that
\* cannot be read, round a cycle; and a store that cannot be read at all.
SmallStores ==
  { StoreOf(<<Of(Own, 0)>>), StoreOf(<<Of([Own EXCEPT !.form = "rewritten"], 0)>>),
    StoreOf(<<Of(Theirs, 0)>>), StoreOf(<<Of(Own, 0), Of(None, 1)>>),
    StoreOf(<<Of(Theirs, 0), Of(None, 1), Of(None, 2)>>),
    StoreOf(<<Of(Own, 0), [Of(None, 1) EXCEPT !.kind = "unread"], Of(None, 2)>>),
    StoreOf(<<Of(None, 2), Of(None, 1)>>),
    [read |-> FALSE, manifests |-> <<>>] }
SmallHeld == {StoreOf(<<Of(Stripped, 0)>>), StoreOf(<<Of(Own, 0), Of(None, 1)>>)}
BareStore == {StoreOf(<<Of(None, 0)>>)}
=============================================================================
