---------------------------- MODULE MCPageLayout ----------------------------
(* An instance of PageLayout for TLC. *)
EXTENDS PageLayout

Columns == <<"int", "str">>

\* The least integer, texts that leave room, fill their field and are too long.
Rows ==
  {<<126, <<3>>>>, <<-128, <<2, 3>>>>, <<-1, <<1, 1, 2>>>>}

\* Memory after the page: a zero at once, or later.
After == {<<>>, <<2>>}

\* The record a free slot still has is never looked at.
View == <<header, Held(header, records), free_space, image, up>>
=============================================================================
