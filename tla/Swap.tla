-------------------------------- MODULE Swap --------------------------------
(***************************************************************************)
(* The SWAP process (SWAP/src/swap.c): one file of CANTIDAD_PAGINAS pages, *)
(* mapped in memory, given out to the processes in contiguous runs.  It is *)
(* a server of one client, the UMC, and answers one request at a time; a   *)
(* request that finds no hole compacts the file, page by page, and tries   *)
(* again.  Nothing survives a restart: crearArchivo fills the file with    *)
(* zeros and every entry of paginasSWAP is freed.                          *)
(*                                                                         *)
(* A page's bytes are one value.  The delays are left out.  Reading        *)
(* paginasSWAP[CANTIDAD_PAGINAS].ocupada, which                            *)
(* primerPaginaOcupadaLuegoDeUnaLibre does for the last page, reads the    *)
(* bytes after the array: padding that calloc cleared, or the size of the  *)
(* next chunk, never the value 1 it is compared with.                      *)
(***************************************************************************)
EXTENDS Integers, Sequences, FiniteSets

CONSTANTS Pids, CANTIDAD_PAGINAS, Codigos, Valores, BASURA,
          NADIE                      \* the idProcesoQueLoOcupa -1

ASSUME PaginasAssumption == CANTIDAD_PAGINAS \in Nat \ {0}
ASSUME NadieAssumption == NADIE \notin Pids
ASSUME CodigosAssumption ==
  \A c \in Codigos : /\ c \in Seq(Valores \cup {BASURA})
                     /\ Len(c) > 0

VARIABLES paginasSWAP,    \* [ocupada, idProcesoQueLoOcupa] of each page
          disco,          \* what the mapped file holds in each page
          pedido,         \* the INICIALIZAR being compacted for, or NADIE
          respuesta       \* the last answer sent to the UMC

vars == <<paginasSWAP, disco, pedido, respuesta>>

Paginas == 0 .. CANTIDAD_PAGINAS - 1
Libre == [ocupada |-> FALSE, idProcesoQueLoOcupa |-> NADIE]

Minimo(S) == CHOOSE i \in S : \A j \in S : i <= j

-----------------------------------------------------------------------------
(* The searches over paginasSWAP; each one returns -1 when it finds nothing. *)

\* A mutant: the count of consecutive free pages is not reset by an occupied one.
HayLugarSinReset(n) ==
  LET libres == {i \in Paginas : ~paginasSWAP[i].ocupada}
  IN  IF Cardinality(libres) >= n /\ Minimo(libres) + n <= CANTIDAD_PAGINAS
      THEN Minimo(libres) ELSE -1

\* The first hole of at least n pages: first fit.
hayLugarParaNuevoProceso(n) ==
  LET caben == {i \in Paginas : /\ i + n <= CANTIDAD_PAGINAS
                                /\ \A j \in i .. i + n - 1 : ~paginasSWAP[j].ocupada}
  IN  IF caben = {} THEN -1 ELSE Minimo(caben)

\* A mutant: what the name says.
LaUltimaPagLibre ==
  LET libres == {i \in Paginas : ~paginasSWAP[i].ocupada}
  IN  IF libres = {} THEN -1 ELSE CHOOSE i \in libres : \A j \in libres : j <= i

\* ultimaPagLibre: in spite of its name, the first free page.
ultimaPagLibre ==
  LET libres == {i \in Paginas : ~paginasSWAP[i].ocupada}
  IN  IF libres = {} THEN -1 ELSE Minimo(libres)

\* A mutant: the search goes on after the first one it finds.
UltimaPaginaOcupadaLuegoDeUnaLibre ==
  LET bordes == {i \in Paginas : /\ i # 0
                                 /\ ~paginasSWAP[i - 1].ocupada
                                 /\ paginasSWAP[i].ocupada}
  IN  IF bordes = {} THEN -1 ELSE CHOOSE i \in bordes : \A j \in bordes : j <= i

primerPaginaOcupadaLuegoDeUnaLibre ==
  LET bordes == {i \in Paginas : /\ i # 0
                                 /\ ~paginasSWAP[i - 1].ocupada
                                 /\ paginasSWAP[i].ocupada}
  IN  IF bordes = {} THEN -1 ELSE Minimo(bordes)

PaginasDe(p) == {i \in Paginas : paginasSWAP[i].idProcesoQueLoOcupa = p}

getPrimerPagProc(p) == IF PaginasDe(p) = {} THEN -1 ELSE Minimo(PaginasDe(p))

-----------------------------------------------------------------------------
Init == /\ paginasSWAP = [i \in Paginas |-> Libre]
        /\ disco = [i \in Paginas |-> BASURA]
        /\ pedido = NADIE
        /\ respuesta = <<"nada">>

\* reservarProceso and inicializarProceso: the n pages from desde on are the
\* process's, and its code is written to them.
Instala(p, codigo, desde) ==
  LET suyas == desde .. desde + Len(codigo) - 1
  IN  /\ paginasSWAP' = [i \in Paginas |->
                           IF i \in suyas
                           THEN [ocupada |-> TRUE, idProcesoQueLoOcupa |-> p]
                           ELSE paginasSWAP[i]]
      /\ disco' = [i \in Paginas |-> IF i \in suyas THEN codigo[i - desde + 1]
                                                    ELSE disco[i]]
      /\ respuesta' = <<"EXITO">>

\* INICIALIZAR of a process the swap does not hold: pids are not reused.
Inicializar(p, codigo) ==
  /\ pedido = NADIE
  /\ PaginasDe(p) = {}
  /\ LET desde == hayLugarParaNuevoProceso(Len(codigo))
     IN  \/ /\ desde # -1
            /\ Instala(p, codigo, desde)
            /\ UNCHANGED pedido
         \/ /\ desde = -1
            /\ pedido' = [pid |-> p, codigo |-> codigo]
            /\ UNCHANGED <<paginasSWAP, disco, respuesta>>

\* One turn of the do-while of compactacion: the first occupied page after a
\* hole moves to the first free page.  The loop's condition never stops it
\* (hayPaginasOcupadasLuegoDeLaUltimaLibre returns 1 or -1); its break does.
\* (First a mutant: the page that moved keeps its idProcesoQueLoOcupa.)
MueveSinDuenio(libre, ocupada) ==
  /\ disco' = [disco EXCEPT ![libre] = disco[ocupada]]
  /\ paginasSWAP' = [paginasSWAP EXCEPT
       ![libre] = [ocupada |-> TRUE,
                   idProcesoQueLoOcupa |-> paginasSWAP[ocupada].idProcesoQueLoOcupa],
       ![ocupada].ocupada = FALSE]

Mueve(libre, ocupada) ==
  /\ disco' = [disco EXCEPT ![libre] = disco[ocupada]]
  /\ paginasSWAP' = [paginasSWAP EXCEPT
       ![libre] = [ocupada |-> TRUE,
                   idProcesoQueLoOcupa |-> paginasSWAP[ocupada].idProcesoQueLoOcupa],
       ![ocupada] = Libre]

compactacion ==
  /\ pedido # NADIE
  /\ primerPaginaOcupadaLuegoDeUnaLibre # -1
  /\ Mueve(ultimaPagLibre, primerPaginaOcupadaLuegoDeUnaLibre)
  /\ UNCHANGED <<pedido, respuesta>>

\* The break of compactacion and the second search of a place.
Reintenta ==
  /\ pedido # NADIE
  /\ primerPaginaOcupadaLuegoDeUnaLibre = -1
  /\ pedido' = NADIE
  /\ LET desde == hayLugarParaNuevoProceso(Len(pedido.codigo))
     IN  \/ /\ desde # -1
            /\ Instala(pedido.pid, pedido.codigo, desde)
         \/ /\ desde = -1
            /\ respuesta' = <<"NOHAYLUGAR">>
            /\ UNCHANGED <<paginasSWAP, disco>>

\* liberarProceso counts on the pages being together: for each entry of the
\* process it frees the next one after the first, whoever owns it.
liberarProceso(p) ==
  LET desde == getPrimerPagProc(p)
  IN  paginasSWAP' = [i \in Paginas |->
                        IF i \in desde .. desde + Cardinality(PaginasDe(p)) - 1
                        THEN Libre ELSE paginasSWAP[i]]

\* FINALIZAR has no answer.
Finalizar(p) ==
  /\ pedido = NADIE
  /\ liberarProceso(p)
  /\ UNCHANGED <<disco, pedido, respuesta>>

\* ESCRIBIR takes the number of the page for the size of the message: it
\* allocates and copies n * TAMANIO_PAGINA bytes.  For page 0 that is an empty
\* buffer, and the page is written from memory nobody filled; for n > 1 the
\* copy reads past the message, of which only the first page is then used.
Escribir(p, n, v) ==
  /\ pedido = NADIE
  /\ n < Cardinality(PaginasDe(p))
  /\ disco' = [disco EXCEPT ![getPrimerPagProc(p) + n] = IF n = 0 THEN BASURA ELSE v]
  /\ UNCHANGED <<paginasSWAP, pedido, respuesta>>

Leer(p, n) ==
  /\ pedido = NADIE
  /\ n < Cardinality(PaginasDe(p))
  /\ respuesta' = <<"pagina", disco[getPrimerPagProc(p) + n]>>
  /\ UNCHANGED <<paginasSWAP, disco, pedido>>

Compactando == compactacion \/ Reintenta

Pedidos(p) == \/ \E c \in Codigos : Inicializar(p, c)
              \/ Finalizar(p)
              \/ \E n \in Paginas : Leer(p, n)
              \/ \E n \in Paginas, v \in Valores : Escribir(p, n, v)

Next == Compactando \/ \E p \in Pids : Pedidos(p)

Spec == Init /\ [][Next]_vars

\* The server does not stop in the middle of a request.
SpecJusta == Spec /\ WF_vars(Compactando)

-----------------------------------------------------------------------------
\* The types of the variables; a page is occupied exactly when it has an owner.
TypeOK ==
  /\ paginasSWAP \in [Paginas -> [ocupada : BOOLEAN,
                                  idProcesoQueLoOcupa : Pids \cup {NADIE}]]
  /\ \A i \in Paginas : paginasSWAP[i].ocupada <=> paginasSWAP[i].idProcesoQueLoOcupa # NADIE
  /\ disco \in [Paginas -> Valores \cup {BASURA}]
  /\ pedido = NADIE \/ pedido \in [pid : Pids, codigo : Codigos]

Duenio(i) == paginasSWAP[i].idProcesoQueLoOcupa

\* Whenever the server takes a request the pages of a process are together:
\* escribirPaginaProceso, leerPaginaProceso and liberarProceso find page n of a
\* process by adding n to its first one.
Contiguos == pedido = NADIE =>
  \A i, j, m \in Paginas : /\ i < j /\ j < m
                            /\ Duenio(i) = Duenio(m)
                            /\ Duenio(i) # NADIE
                            => Duenio(j) = Duenio(i)

\* Compaction ends and the request gets its answer: its do-while has a
\* condition that is always true.
CompactacionTermina == pedido # NADIE ~> pedido = NADIE
=============================================================================
