---------------------------- MODULE MCSchemaTree ----------------------------
(* Two keys and two kinds of leaves, documents of four entries in all: two  *)
(* documents with nested objects, or one that fails and others after it.   *)
EXTENDS SchemaTree
=============================================================================
