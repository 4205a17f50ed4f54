--------------------------- MODULE MCSemaCodegen ---------------------------
(***************************************************************************)
(* Instances of SemaCodegen for TLC: programs with shadowed and dotted     *)
(* names, overloads, a hierarchy of classes, and unanalysed expressions.    *)
(***************************************************************************)
EXTENDS SemaCodegen

P(type, name) == [type |-> type, name |-> name]
Var(name, init) == [kind |-> "var", name |-> name, init |-> init]
Enum(name) == [kind |-> "enum", name |-> name]
Func(name, params, ret) ==
  [kind |-> "func", name |-> name, params |-> params, ret |-> ret,
   access |-> "public"]
Class(name, parent, fields, methods) ==
  [kind |-> "class", name |-> name, parent |-> parent, fields |-> fields,
   methods |-> methods]
Field(name, init, access, array) ==
  [name |-> name, init |-> init, access |-> access, array |-> array]
F(name, init) == Field(name, init, "public", FALSE)
M(name, params, ret, access) ==
  [name |-> name, params |-> params, ret |-> ret, access |-> access]

ProgramWith(defs, names, calls, items, fields, args) ==
  [defs |-> defs, names |-> names, calls |-> calls, items |-> items,
   fields |-> fields, args |-> args]
Program(defs, names, calls, items) ==
  ProgramWith(defs, names, calls, items, {}, {})
Calls(to, names, args) ==
  {<<c, m, a>> : c \in to, m \in names, a \in args}

\* Nested constructs around one global variable.
Nested == Program(<< Var("x", None) >>, {"x"}, {}, 3)

\* Functions, globals before and behind them, an enum.
Shadowing == Program(
  << Var("x", None), Func("m", <<P("int", "x")>>, "value"), Var("y", "x"),
     Enum("E.A") >>,
  {"x", "y"}, Calls({"unqualified"}, {"m"}, {<<>>, <<"int">>}), 2)

\* A class with fields that hide globals and are inherited, after one that
\* extends it.
Inheriting == Program(
  << Var("x", None),
     Class("B", "A", <<>>, <<M("m", <<>>, "void", "public")>>),
     Class("A", None, <<F("x", None), F("y", "x")>>,
           <<M(Ctor, <<P("int", "y")>>, "void", "public"),
             M("m", <<P("int", "x")>>, "value", "protected")>>) >>,
  {"x", "y"},
  Calls({"super", "unqualified", "A", "B"}, {"m"}, {<<>>, <<"int">>})
    \cup Calls({"A", "B"}, {Ctor}, {<<>>, <<"int">>}), 2)

\* Overloads by promotion, hidden and private ones, and a free function of
\* the same name.
Overloading == Program(
  << Func("m", <<P("int", "x")>>, "void"),
     Class("A", None, <<>>, <<M("m", <<P("double", "x")>>, "void", "public"),
                              M("m", <<>>, "void", "private")>>),
     Class("B", "A", <<>>, <<M("m", <<P("float", "x")>>, "void", "public"),
                             M("m", <<>>, "void", "public"),
                             M(Ctor, <<>>, "void", "public")>>) >>,
  {},
  Calls({"super", "unqualified", "A", "B"}, {"m"},
        {<<>>, <<"int">>, <<"float">>})
    \cup Calls({"A", "B"}, {Ctor}, {<<>>}), 2)

\* Overloads whose arrays are all one type to the mangler.
Arrays == Program(
  << Func("m", <<P("array<int>", "x")>>, "void"),
     Func("m", <<P("array<string>", "x")>>, "void"),
     Class("A", None, <<>>, <<M("m", <<P("array<int>", "x")>>, "void",
                                "public")>>),
     Class("B", "A", <<>>, <<M("m", <<P("array<string>", "x")>>, "void",
                               "public")>>) >>,
  {}, Calls({"unqualified", "B"}, {"m"},
            {<<"array<int>">>, <<"array<string>">>}), 2)

\* What the analyser does not look at: arguments of built-in methods and the
\* initialisers of arrays, known or not; and fields of objects, of the class
\* itself, of one before it and of one behind it.
Unanalysed == ProgramWith(
  << Var("x", None),
     Class("A", None, <<F("x", "x"), Field("z", "y", "public", TRUE)>>,
           <<M("m", <<>>, "void", "public")>>),
     Class("B", None, <<Field("x", "x", "public", TRUE),
                        Field("y", None, "private", FALSE)>>,
           <<M("m", <<P("int", "y")>>, "void", "public")>>),
     Func("f", <<>>, "void") >>,
  {"x"}, Calls({"A", "B"}, {Ctor}, {<<>>}), 2,
  {"A", "B"} \X {"x", "y"}, {None, "x", "y"})

\* An enum member as the initialiser of a field.
EnumField == Program(
  << Class("A", None, <<F("x", "E.A")>>, <<>>), Enum("E.A") >>,
  {"x"}, Calls({"A"}, {Ctor}, {<<>>}), 1)

\* What the analyser rejects at once.
Cyclic == Program(
  << Class("A", "B", <<>>, <<>>), Class("B", "A", <<>>, <<>>) >>, {}, {}, 0)
Twice == Program(
  << Func("m", <<>>, "void"), Func("m", <<>>, "value") >>, {}, {}, 0)

MCPrograms ==
  {Nested, Shadowing, Inheriting, Overloading, Arrays, Unanalysed,
   EnumField, Cyclic, Twice}
=============================================================================
