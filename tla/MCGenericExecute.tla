--------------------------- MODULE MCGenericExecute ---------------------------
(* Model checking GenericExecute: the dialogs that the runs choose from. *)
EXTENDS GenericExecute

NoAsks       == {}
AllAsks      == {<<"pager", 0>>, <<"question", 1>>, <<"question", 2>>,
                 <<"cb", 1>>, <<"cb", 2>>}
SameQuestion == {<<"question", 1>>, <<"cb", 1>>}
OneOfEach    == {<<"pager", 0>>, <<"question", 1>>, <<"cb", 2>>}
NoSeq        == <<>>
Q1           == <<1>>
Cb1          == <<1>>
Cb12         == <<1, 2>>

=============================================================================
