------------------------------- MODULE Scripts -------------------------------
(***************************************************************************)
(* The scripts of main.cc, as text, and what comments beside their prints say *)
(* that they show (nothing where there are none); of a list or dictionary its *)
(* kind.  Left out: comments on lines of their own or in Chinese, the element *)
(* (x - 3) / 7 of a list, for it is no integer, and the prints of clock().    *)
(***************************************************************************)
EXTENDS Value

ScriptOf(text, shows) == [text |-> text, shows |-> shows]

LexerSmokeTest ==
  ScriptOf(
    "var _x = 1; print _x; // comment\n",
    <<>>)

ParserExprSmokeTest ==
  ScriptOf(
    "print 1 + 2 * 3;\nprint (1 + 2) * 3;\nvar x = 10;\nprint x + 5 * 2;\n"
    \o "print -x + 3;\n",
    <<>>)

FrontendEndToEndTest ==
  ScriptOf(
    "var x = 1;\nprint x;\nx = x + 1;\nprint x;\nx = x * 10;\nprint x;\nprint [];\n"
    \o "print [1, 2, 3];\nprint [x, x + 1, x * 2];\nprint {};\nprint {\"a\": 1};\n"
    \o "print {\"a\": x, \"b\": x + 1, \"c\": x * 2};\nprint true;\nprint false;\n"
    \o "print null;\nprint [true, null, false];\nprint {\"t\": true, \"n\": null};\n"
    \o "print {\"nums\": [x, x + 1, x + 2], \"double\": x * 2};\nvar a = [10, 20, 30];\n"
    \o "print a[0];\nprint a[2];\nvar d = {\"a\": 1, \"b\": 2};\nprint d[\"a\"];\n"
    \o "print d[\"b\"];\nprint {\"nums\": a}[\"nums\"][1];\n",
    <<>>)

FrontendEndToEndBlockTest ==
  ScriptOf(
    "var a = [10, 20, 30];\na[1] = 99;\nprint a;\nvar d = {\"x\": 1};\nd[\"x\"] = 42;\n"
    \o "print d;\nprint d[\"x\"];\nvar x = 1;\nif (x == 0) print 0;\n"
    \o "else if (x == 1) print 1;\nelse print 2;\nvar i = 0;\nwhile (i < 6) {\n"
    \o "  i = i + 1;\n  if (i == 3) continue;\n  if (i == 5) break;\n  print i;\n}\n"
    \o "var j = 0;\nfor (j = 0; j < 6; j = j + 1) {\n  if (j == 2) continue;\n"
    \o "  if (j == 4) break;\n  print j;\n}\nvar outer = 0;\nwhile (outer < 2) {\n"
    \o "  var inner = 0;\n  while (inner < 3) {\n    inner = inner + 1;\n"
    \o "    if (inner == 2) continue;\n    break;\n  }\n  print outer;\n"
    \o "  outer = outer + 1;\n}\n",
    <<<<"list">>, <<"dict">>>> \o Nums(<<42, 1, 1, 2, 4, 0, 1, 3, 0, 1>>))

FrontendETESmokeTest ==
  ScriptOf(
    "var x = 1;\nprint(x);\n{\n  var x = 2;\n  var y = x + 3;\n  print(x);\n"
    \o "  print(y);\n}\nprint(x);\n{\n  var z = 10;\n  print(z);\n  print(x);\n}\n"
    \o "print(x);\n",
    <<>>)

ScopeAllFeatureSmokeTest ==
  ScriptOf(
    "  var x = 1;\n  print x;        // 1\n  {\n    var x = 2;\n    var y = x + 10;\n"
    \o "    print x;      // 2\n    print y;      // 12\n  }\n  print x;\n"
    \o "  if (x == 1) {\n    var a = 100;\n    print a;      // 100\n  } else {\n"
    \o "    var a = 200;\n    print a;\n  }\n  var i = 0;\n  while (i < 5) {\n"
    \o "    i = i + 1;\n    var t = i * 10;\n    if (i == 2) continue;\n"
    \o "    print t;      // 10, 30, 40 , 50\n  }\n  var j = 0;\n  while (true) {\n"
    \o "    j = j + 1;\n    var k = j + 100;\n    if (j == 3) break;\n"
    \o "    print k;      // 101, 102\n  }\n  print j;        // 3\n"
    \o "  for (var m = 0; m < 5; m = m + 1) {\n    var inner = m * 2;\n"
    \o "    if (m == 1) continue;\n    if (m == 3) break;\n    print inner;  // 0, 4\n"
    \o "  }\n  var outer = 0;\n  while (outer < 2) {\n    var inner = 0;\n"
    \o "    while (inner < 3) {\n      inner = inner + 1;\n"
    \o "      var tmp = outer * 10 + inner;\n      if (inner == 2) continue;\n"
    \o "      break;\n    }\n    print outer;   // 0, 1\n    outer = outer + 1;\n  }\n"
    \o "  print outer;     // 2\n  \n",
    Nums(<<1, 2, 12, 1, 100, 10, 30, 40, 50, 101, 102, 3, 0, 4, 0, 1, 2>>))

CallFunctionSmokeTest ==
  ScriptOf(
    "print \"BEGIN\";\nprint 111;\nfun add(a, b) { return a + b; }\nprint add(1, 2);\n"
    \o "print add(20, 22);\nfun sub(a, b) { return a - b; }\nprint sub(10, 7);\n"
    \o "fun abs1(x) {\n  if (x < 0) { return 0 - x; }\n  else { return x; }\n}\n"
    \o "print abs1(9);\nprint abs1(0 - 9);\nfun fact(n) {\n  if (n < 2) { return 1; }\n"
    \o "  return n * fact(n - 1);\n}\nprint fact(5);\nprint add(add(1, 2), add(3, 4));\n"
    \o "print add(fact(3), fact(4));\nfun shadow(x) {\n  var y = x + 1;\n  {\n"
    \o "    var y = 100;\n  }\n  return y;\n}\nprint shadow(9);\nfun sum_skip3(n) {\n"
    \o "  var i = 0;\n  var s = 0;\n  while (i < n) {\n    i = i + 1;\n"
    \o "    if (i == 3) { continue; }\n    if (i == 8) { break; }\n    s = s + i;\n  }\n"
    \o "  return s;\n}\nprint sum_skip3(100);\nfun list_demo(a) {\n"
    \o "  var L = [a, a + 1, a + 2];\n  L[1] = L[1] + 10;\n  return L[0] + L[1] + L[2];\n"
    \o "}\nprint list_demo(1);\nfun dict_demo(dummy) {\n"
    \o "  var D = { \"a\": 1, \"b\": 2 };\n  D[\"c\"] = D[\"a\"] + D[\"b\"];\n"
    \o "  return D[\"c\"];\n}\nprint dict_demo(0);\nfun for_demo(n) {\n  var s = 0;\n"
    \o "  for (var i = 0; i < n; i = i + 1) {\n    s = s + i;\n  }\n  return s;\n}\n"
    \o "print for_demo(5);\nprint 999;\nprint \"END\";\n",
    <<>>)

NativeFunctionSmokeTest ==
  ScriptOf(
    "print \"BEGIN_FULL\";\nprint len([1, 2, 3]);\nprint str(123);\n"
    \o "print type({ \"a\": 1 });\nprint abs(0 - 9);\nfun add(a, b) { return a + b; }\n"
    \o "print add(1, 2);\nprint add(20, 22);\nfun fact(n) {\n  if (n < 2) { return 1; }\n"
    \o "  return n * fact(n - 1);\n}\nprint fact(5);\nfun isEven(n) {\n"
    \o "  if (n == 0) return true;\n  return isOdd(n - 1);\n}\nfun isOdd(n) {\n"
    \o "  if (n == 0) return false;\n  return isEven(n - 1);\n}\nprint isEven(10);\n"
    \o "print isOdd(10);\nprint isEven(7);\nprint isOdd(7);\nfun shadow(x) {\n"
    \o "  var y = x + 1;\n  {\n    var y = 100;\n  }\n  return y;\n}\nprint shadow(9);\n"
    \o "fun sum_skip3(n) {\n  var i = 0;\n  var s = 0;\n  while (i < n) {\n"
    \o "    i = i + 1;\n    if (i == 3) { continue; }\n    if (i == 8) { break; }\n"
    \o "    s = s + i;\n  }\n  return s;\n}\nprint sum_skip3(100);\nfun list_demo(a) {\n"
    \o "  var L = [a, a + 1, a + 2];\n  L[1] = L[1] + 10;\n  return L[0] + L[1] + L[2];\n"
    \o "}\nprint list_demo(1);\nfun dict_demo(dummy) {\n"
    \o "  var D = { \"a\": 1, \"b\": 2 };\n  D[\"c\"] = D[\"a\"] + D[\"b\"];\n"
    \o "  return D[\"c\"];\n}\nprint dict_demo(0);\nprint 999;\nprint \"END_FULL\";\n",
    <<>>)

CallVirtualFunctionTest ==
  ScriptOf(
    "print \"BEGIN_CALLV\";\nfun add(a, b) { return a + b; }\nvar f = add;\n"
    \o "print f(1, 2);\nvar o = { \"m\": add };\nprint o[\"m\"](20, 22);\n"
    \o "print add(3, 4);\nprint len([1, 2, 3]);\nprint abs(0 - 9);\nprint \"END_CALLV\";\n",
    <<>>)
=============================================================================
