--------------------------- MODULE MCFileDelivery ---------------------------
(* Blocks that differ in what extraction tells apart.                      *)
EXTENDS FileDelivery

\* A name that looks like a synthetic one, and one that does not
MCGiven == {<<"image", 0, "image">>, <<"report", 0, "other">>}

B(kind, name, mime, full) ==
    [kind |-> kind, name |-> name, mime |-> mime, full |-> full]

MCToolBlock ==
    {B("text", NoName, "other", TRUE), B("rest", NoName, "other", TRUE),
     B("image", NoName, "image", TRUE), B("blob", NoName, "image", TRUE),
     B("blob", NoName, "other", TRUE),
     B("link", <<"image", 0, "image">>, "image", TRUE),
     B("blob", NoName, "other", FALSE)}

MCPlainBlock ==
    {B("text", <<"report", 0, "other">>, "other", TRUE),
     B("text", <<"image", 0, "image">>, "other", TRUE),
     B("text", NoName, "other", TRUE), B("image", NoName, "image", TRUE),
     B("file", NoName, "other", TRUE), B("file", NoName, "other", FALSE)}
=============================================================================
