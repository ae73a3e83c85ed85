------------------------------ MODULE MCIniMap ------------------------------
(* Texts with every kind of line, right and wrong, and two objects.        *)
EXTENDS IniMap
CONSTANTS m1, m2

lf == "\n"
MCObj == {m1, m2}
MCTexts == {
  <<>>,
  <<" ", lf, ";", "c", " ", lf, "[", " ", "a", "]", lf, "k", " ", "=", " ", "v", " ", lf>>,
  <<"[", "a", "]", lf, "k", "=", "1", lf, "[", "a", "]", lf, "k", "=", "\r", lf, "j", "=", "3">>,
  <<lf, "k", "=", "v">>,
  <<"[", "a", "]", lf, "k", "=", "v", lf, "=", "v">>,
  <<"[", "a", "]", lf, "k">>,
  <<";", lf, "[", " ", "]">>,
  <<"[", "]">>,
  <<"[", "a">>,
  <<"[", "a", "[", "]">>,
  <<"[", "a", "]", lf, "k", "=", "\r", "x", lf, ";", "\r", " ">>,
  <<"[", "a", "]", lf, "k", "=", "1", "2", "3", "4", "5", "6", "7", "8", "9", "=", "w", lf>>}
MCEditTexts == {<<" ", "x">>, <<"x", "=">>, <<";", "x", " ">>}
Symmetry == Permutations(MCObj)
MCSuffix == <<" ", "t", " ">>
=============================================================================
