---------------------------- MODULE MCTypeTables ----------------------------
(* Files about names: two constructs of any kind, whose names and members    *)
(* are reserved words, plain names, each other's names or names that look    *)
(* like renamed ones; and perhaps a typedef.                                 *)
(* Files about types: three typedefs of each other, of a primitive, of an    *)
(* interface of the file, of a type that may be external, or of sequences    *)
(* and unions of these; an interface and, perhaps, a callback, a dictionary  *)
(* or an interface called like a C word that use them.                       *)
EXTENDS TypeTables

struct == <<"struct">>
bool == <<"bool">>
any == <<"any">>
this == <<"this">>
D == <<"D">>
x == <<"x">>

CWords == {struct}
CTypeWords == {bool}
WebIDLWords == {any}
JavascriptWords == {this}
Long == <<"long">>
CTypes == {Long, bool}

Thing(kind, name, names, operations, types, externals) ==
  [kind |-> kind, name |-> name, is_module |-> FALSE, externalTypes |-> externals,
   names |-> names, operations |-> operations, types |-> types]

Named(kind, name, names, operations) == Thing(kind, name, names, operations, <<>>, <<>>)

MemberNames == {struct, struct \o <<"_">>, D, x}
OneOrTwo == {<<>>} \union {<<m>> : m \in MemberNames} \union {<<x, m>> : m \in MemberNames}

ConstructNames == {struct, struct \o <<"_">>, D}

Calls ==
  {<<>>, <<[name |-> D, typed |-> FALSE, arguments |-> <<>>]>>}
    \union {<<[name |-> m, typed |-> TRUE, arguments |-> a]>> :
               m \in {x, struct, struct \o <<"_">>}, a \in {<<D, x>>, <<struct, struct>>}}

Plainly == {Named(kind, name, names, <<>>) :
              kind \in {"callback", "dictionary"}, name \in ConstructNames, names \in OneOrTwo}

Enums == {Named("enum", name, names, <<>>) : name \in {struct, bool, D},
            names \in {<<>>, <<x>>, <<x, x>>, <<<<"x", " ", "x">>, <<"x", "+">>>>,
                      <<struct, struct \o <<" ">>>>}}

Interfaces == {Named("interface", name, names, calls) :
                 name \in ConstructNames, names \in {<<>>, <<x>>, <<struct>>, <<x, x>>},
                 calls \in Calls}

(* Names that are words of WebIDL or JavaScript. *)
Refused == {Thing("callback", D, <<>>, <<>>, <<>>, <<any>>),
            Named("enum", any, <<x>>, <<>>), Named("callback", this, <<>>, <<>>),
            [Named("interface", this, <<>>, <<>>) EXCEPT !.is_module = TRUE],
            Named("interface", this, <<>>, <<>>)}

Type(members, depth, is_argument) ==
  [members |-> members, depth |-> depth, is_argument |-> is_argument]

P(name) == Type(<<name>>, 0, FALSE)
A(name) == Type(<<name>>, 0, TRUE)
S(name) == Type(<<name>>, 1, FALSE)

Typedef(name, type, externals) == Thing("typedef", name, <<>>, <<>>, <<type>>, externals)

Rest == {<<>>, <<Typedef(D, P(Long), <<>>)>>}

AboutNames ==
  {[ast |-> <<a, b>> \o rest, leave_enums_alone |-> alone, fix_type_errors |-> ~alone] :
     a \in Plainly \union Enums, b \in Plainly \union Enums \union Interfaces \union Refused,
     rest \in Rest, alone \in BOOLEAN}

Iface == <<"Iface">>
Far == <<"Far">>
Typo == <<"Typo">>
T1 == <<"T1">>
T2 == <<"T2">>
T3 == <<"T3">>

Aliases == {P(T1), P(T2), P(T3), P(Long), P(Far), P(Iface)}
LongOrT1 == Type(<<Long, T1>>, 1, FALSE)

FarArray == Far \o <<"_array">>

Users ==
  { <<>>,
    <<Thing("callback", struct, <<x>>, <<>>, <<P(T1), S(Far)>>, <<>>),
      Thing("callback", struct \o <<"_">>, <<x>>, <<>>, <<P(Iface)>>, <<Far, Far>>)>>,
    <<Thing("dictionary", FarArray, <<x>>, <<>>, <<P(T2), S(Far)>>, <<>>),
      Thing("enum", Far, <<x>>, <<>>, <<>>, <<>>)>>,
    <<Thing("callback", <<"Call">>, <<x>>, <<>>, <<S(Far), P(FarArray), P(<<"Far", "_or_", "long">>)>>, <<FarArray>>),
      Thing("dictionary", <<"Di">>, <<x>>, <<>>, <<Type(<<Far, Long>>, 0, FALSE)>>, <<>>)>>,
    <<Thing("dictionary", Far, <<x>>, <<>>, <<P(T2)>>, <<>>)>>,
    <<Thing("callback", <<"Call">>, <<x>>, <<>>, <<P(Iface), A(T3)>>, <<Iface, Far>>)>>,
    <<Thing("dictionary", <<"Di">>, <<x>>, <<>>, <<LongOrT1, Type(<<Far>>, 2, FALSE)>>, <<>>)>>,
    <<Thing("interface", struct, <<x>>, <<>>, <<P(struct), S(T2)>>, <<>>)>>,
    <<Thing("callback", struct, <<x>>, <<>>, <<S(struct)>>, <<>>)>>,
    <<Thing("dictionary", <<"Di">>, <<x>>, <<>>, <<Type(<<Long, Typo>>, 0, FALSE)>>, <<>>)>> }

AboutTypes ==
  { [ast |-> <<Typedef(T1, a, e), Typedef(T2, b, <<>>), Typedef(T3, c, <<>>),
               Thing("interface", Iface, <<x>>, <<>>, types, externals)>> \o users,
     leave_enums_alone |-> FALSE, fix_type_errors |-> TRUE] :
      a \in Aliases, b \in Aliases \union {S(Far)}, c \in {P(T1), P(T2), P(Far), LongOrT1},
      e \in {<<>>, <<Far>>}, types \in {<<P(T1)>>, <<A(T3), P(Far)>>, <<P(T2), P(T3), A(T1)>>},
      externals \in {<<>>, <<Far>>}, users \in Users }

Files == {AboutNames, AboutTypes}
=============================================================================
