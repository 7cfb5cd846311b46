---------------------------- MODULE ErrorMapping ----------------------------
(***************************************************************************)
(* GlobalExceptionFilter: from what a handler throws to the status that    *)
(* its caller gets.  Pure operators, for the modules whose handlers throw. *)
(*                                                                         *)
(* The status is the same in production and in development; the texts and  *)
(* stacks of the answers, which are not, are left out.                     *)
(***************************************************************************)
EXTENDS Naturals

\* HttpException of Nest, known and initialization errors of Prisma's client,
\* and everything else.
Http(status) == [class |-> "http", status |-> status, code |-> "none"]
Prisma(code) == [class |-> "prisma", status |-> 0, code |-> code]
NoDatabase   == [class |-> "prismaInit", status |-> 0, code |-> "none"]
PlainError   == [class |-> "error", status |-> 0, code |-> "none"]

\* handlePrismaError: unique index; missing rows; data the caller got wrong.
Conflicts == {"P2002"}
Missing   == {"P2015", "P2016", "P2025"}
BadData   == {"P2003", "P2010", "P2011", "P2012", "P2013", "P2014",
              "P2017", "P2019", "P2020", "P2023"}

\* Mutant: a code that is not listed counts as the caller's mistake.
PrismaStatusBlamingCaller(code) ==
  CASE code \in Conflicts -> 409
    [] code \in Missing   -> 404
    [] OTHER              -> 400

PrismaStatus(code) == CASE code \in Conflicts -> 409
                        [] code \in Missing   -> 404
                        [] code \in BadData   -> 400
                        [] OTHER              -> 500

Status(e) == CASE e.class = "http"       -> e.status
               [] e.class = "prisma"     -> PrismaStatus(e.code)
               [] e.class = "prismaInit" -> 503
               [] OTHER                  -> 500
=============================================================================
