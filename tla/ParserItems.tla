---------------------------- MODULE ParserItems ----------------------------
(***************************************************************************)
(* What the states of the parser's tables stand for, as far as proofs need *)
(* it: how much of which rules has been read.  The tables of bison do not  *)
(* say so; it is worked out from the grammar, and the lemmas of            *)
(* FrontEndProofs say that the tables agree with it.                       *)
(***************************************************************************)
EXTENDS ParserTables

States == 0..(NStates - 1)

\* <<s, r, d>>: in state s the first d symbols of rule r have been read, and
\* the others may follow.
Items ==
  {
    <<1, 1, 1>>, <<1, 3, 1>>, <<1, 4, 1>>, <<2, 1, 2>>, <<3, 14, 1>>,
    <<4, 31, 1>>, <<5, 5, 1>>, <<5, 6, 1>>, <<6, 8, 1>>, <<7, 9, 1>>,
    <<8, 10, 1>>, <<9, 11, 1>>, <<10, 12, 1>>, <<11, 13, 1>>, <<12, 4, 2>>,
    <<13, 3, 2>>, <<14, 7, 1>>, <<15, 14, 2>>, <<16, 16, 1>>, <<16, 24, 1>>,
    <<16, 25, 1>>, <<16, 28, 1>>, <<17, 29, 1>>, <<18, 30, 1>>,
    <<19, 21, 1>>, <<19, 22, 1>>, <<20, 54, 1>>, <<21, 18, 1>>,
    <<21, 19, 1>>, <<21, 20, 1>>, <<21, 53, 1>>, <<22, 23, 1>>,
    <<23, 17, 1>>, <<24, 31, 2>>, <<24, 52, 1>>, <<25, 51, 1>>, <<26, 5, 2>>,
    <<26, 6, 2>>, <<27, 15, 1>>, <<28, 8, 2>>, <<29, 9, 2>>, <<30, 10, 2>>,
    <<31, 11, 2>>, <<32, 12, 2>>, <<33, 13, 2>>, <<34, 4, 3>>, <<35, 7, 2>>,
    <<36, 24, 2>>, <<36, 25, 2>>, <<37, 24, 1>>, <<37, 25, 1>>,
    <<37, 28, 1>>, <<38, 18, 1>>, <<38, 19, 1>>, <<38, 20, 1>>,
    <<38, 22, 2>>, <<39, 21, 2>>, <<40, 53, 2>>, <<41, 69, 1>>,
    <<42, 72, 1>>, <<43, 73, 1>>, <<44, 78, 1>>, <<45, 79, 1>>,
    <<46, 68, 1>>, <<47, 70, 1>>, <<48, 71, 1>>, <<49, 74, 1>>,
    <<50, 75, 1>>, <<51, 76, 1>>, <<52, 77, 1>>, <<53, 18, 2>>,
    <<53, 19, 2>>, <<53, 20, 2>>, <<54, 31, 3>>, <<55, 52, 2>>, <<56, 5, 3>>,
    <<56, 6, 3>>, <<57, 8, 3>>, <<58, 9, 3>>, <<59, 10, 3>>, <<60, 11, 3>>,
    <<61, 12, 3>>, <<62, 13, 3>>, <<63, 25, 3>>, <<64, 18, 1>>,
    <<64, 19, 1>>, <<64, 20, 1>>, <<64, 26, 1>>, <<65, 24, 3>>,
    <<65, 27, 1>>, <<66, 22, 3>>, <<67, 21, 3>>, <<68, 16, 1>>,
    <<69, 53, 3>>, <<70, 28, 1>>, <<71, 19, 3>>, <<71, 20, 3>>,
    <<72, 18, 3>>, <<73, 55, 1>>, <<74, 31, 4>>, <<74, 56, 1>>,
    <<75, 52, 3>>, <<76, 5, 4>>, <<77, 6, 4>>, <<78, 8, 4>>, <<79, 9, 4>>,
    <<80, 10, 4>>, <<81, 13, 4>>, <<82, 24, 4>>, <<83, 27, 2>>,
    <<84, 18, 1>>, <<84, 19, 1>>, <<84, 19, 4>>, <<84, 20, 1>>,
    <<85, 20, 4>>, <<86, 33, 1>>, <<87, 56, 2>>, <<88, 31, 5>>, <<89, 5, 5>>,
    <<90, 6, 5>>, <<91, 8, 5>>, <<92, 9, 5>>, <<92, 18, 1>>, <<92, 19, 1>>,
    <<92, 20, 1>>, <<93, 65, 1>>, <<93, 66, 1>>, <<93, 67, 1>>,
    <<94, 10, 5>>, <<94, 64, 1>>, <<95, 63, 1>>, <<96, 18, 1>>,
    <<96, 19, 1>>, <<96, 20, 1>>, <<96, 27, 3>>, <<97, 19, 5>>,
    <<98, 20, 5>>, <<99, 18, 1>>, <<99, 19, 1>>, <<99, 20, 1>>,
    <<99, 33, 2>>, <<100, 56, 3>>, <<101, 37, 1>>, <<102, 31, 6>>,
    <<103, 57, 1>>, <<104, 58, 1>>, <<105, 59, 1>>, <<106, 5, 6>>,
    <<106, 60, 1>>, <<106, 61, 1>>, <<106, 62, 1>>, <<107, 8, 6>>,
    <<107, 18, 1>>, <<107, 19, 1>>, <<107, 20, 1>>, <<108, 9, 6>>,
    <<109, 67, 2>>, <<110, 66, 2>>, <<111, 10, 6>>, <<112, 64, 2>>,
    <<113, 37, 2>>, <<114, 35, 1>>, <<115, 31, 7>>, <<116, 5, 7>>,
    <<117, 60, 2>>, <<117, 61, 2>>, <<117, 62, 2>>, <<118, 8, 7>>,
    <<119, 67, 3>>, <<120, 10, 7>>, <<121, 64, 3>>, <<122, 40, 1>>,
    <<123, 37, 3>>, <<123, 39, 1>>, <<124, 38, 1>>, <<125, 18, 1>>,
    <<125, 19, 1>>, <<125, 20, 1>>, <<125, 35, 2>>, <<126, 42, 1>>,
    <<127, 31, 8>>, <<128, 5, 8>>, <<129, 60, 3>>, <<130, 61, 3>>,
    <<131, 62, 3>>, <<132, 8, 8>>, <<132, 18, 1>>, <<132, 19, 1>>,
    <<132, 20, 1>>, <<133, 39, 2>>, <<134, 42, 2>>, <<135, 8, 9>>,
    <<136, 39, 3>>, <<137, 45, 1>>, <<137, 46, 1>>, <<137, 47, 1>>,
    <<138, 48, 1>>, <<138, 49, 1>>, <<138, 50, 1>>, <<139, 42, 3>>,
    <<139, 44, 1>>, <<140, 43, 1>>, <<141, 46, 2>>, <<142, 47, 2>>,
    <<143, 49, 2>>, <<144, 50, 2>>, <<145, 44, 2>>, <<146, 44, 3>>
  }

\* <<s, A>>: in state s the nonterminal A may begin.
Beginnings ==
  {
    <<0, 50>>, <<0, 51>>, <<1, 52>>, <<6, 53>>, <<9, 53>>, <<26, 53>>,
    <<29, 53>>, <<30, 53>>, <<33, 53>>, <<54, 53>>, <<87, 53>>, <<4, 54>>,
    <<40, 54>>, <<55, 54>>, <<57, 54>>, <<80, 54>>, <<112, 54>>, <<113, 54>>,
    <<133, 54>>, <<134, 54>>, <<145, 54>>, <<4, 55>>, <<19, 55>>, <<36, 55>>,
    <<55, 55>>, <<71, 55>>, <<79, 55>>, <<83, 55>>, <<86, 55>>, <<91, 55>>,
    <<114, 55>>, <<118, 55>>, <<4, 56>>, <<19, 56>>, <<36, 56>>, <<55, 56>>,
    <<71, 56>>, <<79, 56>>, <<83, 56>>, <<86, 56>>, <<91, 56>>, <<114, 56>>,
    <<118, 56>>, <<36, 57>>, <<4, 58>>, <<19, 58>>, <<36, 58>>, <<53, 58>>,
    <<55, 58>>, <<71, 58>>, <<79, 58>>, <<83, 58>>, <<86, 58>>, <<91, 58>>,
    <<114, 58>>, <<118, 58>>, <<1, 59>>, <<19, 59>>, <<56, 59>>, <<71, 59>>,
    <<74, 60>>, <<102, 61>>, <<88, 62>>, <<113, 63>>, <<113, 64>>,
    <<133, 64>>, <<115, 65>>, <<134, 66>>, <<134, 67>>, <<145, 67>>,
    <<4, 68>>, <<4, 69>>, <<55, 69>>, <<54, 70>>, <<89, 71>>, <<80, 72>>,
    <<80, 73>>, <<112, 73>>, <<21, 74>>, <<38, 74>>, <<64, 74>>, <<84, 74>>,
    <<92, 74>>, <<96, 74>>, <<99, 74>>, <<107, 74>>, <<125, 74>>, <<132, 74>>
  }

\* Some of a rule has been read in a state; a nonterminal may begin there.
Read(s, r, d) == <<s, r, d>> \in Items

MayBegin(s, A) == <<s, A>> \in Beginnings

\* Whether the second state may stand directly above the first one: each of
\* its items goes on with one of the first, or begins there.
Follows(below, state) ==
    \A r \in 1..NRules, d \in 1..9 :
       Read(state, r, d) =>
          IF d = 1 THEN MayBegin(below, At(yyr1, r))
                   ELSE Read(below, r, d - 1)
=============================================================================
