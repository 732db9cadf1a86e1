---------------------------- MODULE MCDataSmart ----------------------------
(***************************************************************************)
(* Variables and texts for model checking DataSmart.                       *)
(***************************************************************************)
EXTENDS DataSmart

Names == {"A", "A_foo", "A_bar"}

Suffix == [v \in Names |-> CASE v = "A_foo" -> "foo" [] v = "A_bar" -> "bar"
                             [] v = "A" -> NoOverride]

Prefix == [v \in Names |-> "A"]

\* Nothing is active, or both are: foo counts, as bar is listed before it, too.
Orders == {<<>>, <<"bar", "foo", "bar">>}

\* A refers to A_bar.
Values == {<<"A", <<"A_bar">>>>, <<"A_foo", <<"y">>>>, <<"A_bar", <<"z">>>>}

Entry(word, override) == [word |-> word, override |-> override]

\* Two are applied in any case, one where foo is active.
Pending == {<<"A", "_append", Entry("p", NoOverride)>>, <<"A", "_append", Entry("q", "foo")>>,
            <<"A", "_prepend", Entry("r", NoOverride)>>}

\* The manual's example: a variable with an override in its name is appended to.
ManualPending == {<<"A_foo", "_append", Entry("x", NoOverride)>>}

\* Where foo is active.
ManualOrders == {<<"foo">>}

Defaults == {<<"A", <<"v">>>>}

Renames == {<<"A", "A_foo">>}
=============================================================================
