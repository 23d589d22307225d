------------------------------ MODULE MCServer ------------------------------
\* Names of which one begins with the other, with and without a colon; four
\* texts of captured_at, two of them with an offset, which makes one name an
\* earlier instant than a text that is sorted before it; two schemas that differ
\* in a column and in a type.  Up to four violations in two tables; limits and
\* offsets around the page sizes and the maximum.
EXTENDS Server

Chars == {"o", "r", ":"}
Tables == {<<"o">>, <<"o", "r">>, <<"o", ":", "r">>}

At(local, offset) == [local |-> local, offset |-> offset]
Times == {At(1, 0), At(2, 0), At(2, 2), At(2, -1)}

Column(type, nullable) == [type |-> type, nullable |-> nullable]
Schemas == {[id |-> Column("int4", FALSE)],
            [id |-> Column("text", TRUE), name |-> Column("text", FALSE)]}

Parameters == -1..4

Path(abs, parts, sql) == [abs |-> abs, parts |-> parts, sql |-> sql]
Paths == {Path(FALSE, <<"q">>, TRUE), Path(TRUE, <<"q">>, TRUE), Path(FALSE, <<"..", "q">>, TRUE),
          Path(FALSE, <<"a..b">>, TRUE), Path(FALSE, <<>>, FALSE)}
=============================================================================
