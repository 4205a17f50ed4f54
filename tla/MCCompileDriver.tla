--------------------------- MODULE MCCompileDriver ---------------------------
(***************************************************************************)
(* An instance of CompileDriver for TLC.  The parser's tokens begin with   *)
(* anything, or inside a parameter list, the methods of a class, a switch  *)
(* or the head of a for.                                                  *)
(***************************************************************************)
EXTENDS CompileDriver

MCStarts ==
  { <<>>,
    <<"func", "id", "(">>,
    <<"class", "id", "lbrace", "attributes", "[", "id", "]", "::", "methods",
      "::">>,
    <<"run", "lbrace", "switch", "(", "id", ")", "lbrace">>,
    <<"run", "lbrace", "for", "(">> }

MCChar ==
  {"0", "1", "9", "b", "e", "n", "o", "x", "z", "sp", "nl", "(", "=", "*",
   "/", "-", "+", "!", "<", ">", "&", ":", ".", "'", "quote", "\\", "@"}
=============================================================================
