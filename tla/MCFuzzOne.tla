----------------------------- MODULE MCFuzzOne -----------------------------
(* Test cases of one, five and seven bytes, user tokens, and a dictionary  *)
(* that is empty or full.                                                   *)
EXTENDS FuzzOne

Letters == {"a", "b", "c"}
Files == {<<"a">>, <<"a", "b", "c", "b", "a">>, <<"a", "b", "c", "a", "b", "c", "c">>}
User == <<<<"c">>, <<"b", "a">>>>
T(d, n) == [data |-> d, hit_cnt |-> n]
Full == <<T(<<"b", "c">>, 1), T(<<"c", "b", "a">>, 2), T(<<"a", "c">>, 1), T(<<"c", "b">>, 0)>>
Session == {<<>>, Full}
Integer == {<<"c", "a">>}
=============================================================================
