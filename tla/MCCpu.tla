------------------------------- MODULE MCCpu --------------------------------
(* A CPU and every program that Permitidas allows, for TLC.                 *)
EXTENDS CpuRefina

\* A function from the seventh instruction on, a loop in main, and a function that
\* is the last instruction only.
MCEtiquetas == <<6, 2, 8>>

\* Pages of two words: the third instruction takes three of them, the second
\* and the fifth are split in two, and the others start anywhere.
MCIndice == <<<<0, 6>>, <<6, 4>>, <<10, 17>>, <<27, 5>>, <<32, 12>>, <<44, 4>>,
              <<48, 7>>, <<55, 6>>, <<61, 3>>>>

variables(x) == [op |-> "variables", x |-> x]
valor(x, v) == [op |-> "valor", x |-> x, v |-> v]
copia(x, y) == [op |-> "copia", x |-> x, y |-> y]
lee(x) == [op |-> "lee", x |-> x]
escribe(y) == [op |-> "escribe", y |-> y]
llama(x, l, args) == [op |-> "llama", x |-> x, l |-> l, args |-> args]
devuelve(y) == [op |-> "return", y |-> y]
vuelta == [op |-> "goto", l |-> 2]
fin == [op |-> "end"]
espera == [op |-> "wait"]

MCPermitidas ==
  <<{variables("a")},
    {variables("a"), variables("b")},
    {valor("a", 1), variables("b"), espera},
    {llama("a", 1, <<>>), llama("b", 3, <<"a">>), llama("a", 1, <<"a", "b">>), copia("b", "a")},
    {llama("b", 1, <<"a">>), escribe("b"), lee("a")},
    {fin, vuelta},
    {variables("c"), espera},
    {copia("c", "0"), valor("c", 2), llama("c", 1, <<"c">>), llama("c", 3, <<"c">>),
     llama("0", 1, <<>>)},
    {devuelve("c"), devuelve("0")}>>
=============================================================================
