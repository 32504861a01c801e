------------------------------ MODULE MCPrintf ------------------------------
(***************************************************************************)
(* Formats of one and two pieces, and reports as short as they can be.     *)
(***************************************************************************)
EXTENDS Stops

T(text) == [kind |-> "text", text |-> text]

Escape(code) == <<"ESC", "[">> \o code \o <<"m">>

Numbers == [kind : {"d"}, val : {0, 7, 305}, width : {0, 1, 4}, zero : BOOLEAN]

Pieces ==
  {T(<<c>>) : c \in {"a", "NL", "BS", "TAB"}} \union
  {T(Escape(code)) : code \in {<<"0">>, <<"9", "7">>, <<"4", "4">>}} \union
  {T(<<"ESC", "[", "2", "J">>), T(<<"ESC", "[", "H">>),
   T(<<"ESC", "[", "1", "0", "0", "0", "7", "m">>)}

Seconds == {T(<<"a">>), T(<<"NL">>), T(<<"BS">>), T(Escape(<<"9", "7">>)), T(<<"ESC", "[", "H">>)}

MCFormats ==
  {<<piece>> : piece \in Numbers \union {[kind |-> "x", val |-> 190],
                                         [kind |-> "s", text |-> NULL]}} \union
  {<<p, q>> : p \in Pieces, q \in Seconds}

MCStamp == <<T(<<"[">>), [kind |-> "d", val |-> 7, width |-> 0, zero |-> FALSE]>>

MCArguments ==
  [s |-> [kind |-> "s", text |-> <<"b">>],
   d |-> [kind |-> "d", val |-> 7, width |-> 0, zero |-> FALSE],
   x |-> [kind |-> "x", val |-> 190]]

MCMessages == {<<T(<<"a">>)>>}

FB(w, h) == [width |-> w, height |-> h, pitch |-> 4 * w]

\* Without a border, with one in the last page, and with one beyond it.
MCFrameBuffers == {FB(16, 32), FB(20, 40), FB(24, 42)}
=============================================================================
