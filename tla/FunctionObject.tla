--------------------------- MODULE FunctionObject ---------------------------
(* The function object of a Cython module: its attributes, as programs for  *)
(* the machine of References. A field of the object is a variable with the  *)
(* field's name; "function" is the reference by which Python holds it.      *)
EXTENDS References, TLC

Fields == {"m_module", "func_dict", "func_name", "func_qualname", "func_doc", "func_globals", "func_code",
           "defaults_tuple", "defaults_kwdict", "func_annotations", "func_is_coroutine"}

(* A new function shares its module's name, its qualified name, the globals  *)
(* and its code, and has its annotations from SetAnnotationsDict.            *)
CyFunction_Init ==
  [f \in Fields |-> IF f \in {"m_module", "func_qualname", "func_globals", "func_code", "func_annotations"}
                    THEN "own" ELSE "null"]

----------------------------------------------------------------------------
Share(f)  == <<Incref(f, "result"), Return("result")>>
ShareNone == <<Borrow("None"), Incref("None", "result"), Return("result")>>

(* Py_INCREF(value); __Pyx_Py_XDECREF_SET(field, value)                      *)
Store(f)  == <<Borrow("value"), Incref("value", "new"), Move(f, "tmp"), Move("new", f), XDrop("tmp"), Succeed>>

get_doc == [
  entry   |-> <<IfNull("func_doc", "make")>> \o Share("func_doc"),
  make    |-> <<Maybe("none"), New("func_doc", "failed")>> \o Share("func_doc"),
  none    |-> ShareNone,
  failed  |-> <<Fail>>]

set_doc == [entry |-> Store("func_doc")]

get_name == [
  entry   |-> <<IfNull("func_name", "make")>> \o Share("func_name"),
  make    |-> <<New("func_name", "failed")>> \o Share("func_name"),
  failed  |-> <<Fail>>]

(* An attribute that must have a certain type ("wrong" is not of it), and    *)
(* whether it may be deleted.                                                *)
Checked(f) == [
  entry   |-> <<If("deleted", "refused"), If("wrong", "refused")>> \o Store(f),
  refused |-> <<Raise("failed")>>,
  failed  |-> <<Fail>>]

set_name     == Checked("func_name")
set_qualname == Checked("func_qualname")
set_dict     == Checked("func_dict")

get_qualname == [entry |-> Share("func_qualname")]
get_globals  == [entry |-> Share("func_globals")]
get_closure  == [entry |-> ShareNone]

get_dict == [
  entry   |-> <<IfNull("func_dict", "make")>> \o Share("func_dict"),
  make    |-> <<New("func_dict", "failed")>> \o Share("func_dict"),
  failed  |-> <<Fail>>]

get_code == [
  entry   |-> <<IfNull("func_code", "none")>> \o Share("func_code"),
  none    |-> ShareNone]

(* Both defaults are taken from the getter at once.                          *)
init_defaults == [
  entry   |-> <<New("res", "failed"), Uses("res"), Borrow("item"), Incref("item", "defaults_tuple"),
                Incref("item", "defaults_kwdict"), Drop("res"), Succeed>>,
  failed  |-> <<Fail>>]

(* The result of PyErr_WarnEx is not looked at.                              *)
set_default(f) == [
  entry   |-> <<If("wrong", "refused"), Must("")>> \o Store(f),
  refused |-> <<Raise("failed")>>,
  failed  |-> <<Fail>>]

get_default(f) == [
  entry   |-> <<IfNull(f, "unset")>> \o Share(f),
  unset   |-> <<If("defaults_getter", "make")>> \o ShareNone,
  make    |-> <<Call("init_defaults", "", "failed")>> \o Share(f),
  failed  |-> <<Fail>>]

set_defaults   == set_default("defaults_tuple")
get_defaults   == get_default("defaults_tuple")
set_kwdefaults == set_default("defaults_kwdict")
get_kwdefaults == get_default("defaults_kwdict")

set_annotations == [
  entry   |-> <<If("deleted", "remove"), If("wrong", "refused")>> \o Store("func_annotations"),
  remove  |-> <<Move("func_annotations", "tmp"), XDrop("tmp"), Succeed>>,
  refused |-> <<Raise("failed")>>,
  failed  |-> <<Fail>>]

get_annotations == [
  entry   |-> <<IfNull("func_annotations", "make")>> \o Share("func_annotations"),
  make    |-> <<New("func_annotations", "failed")>> \o Share("func_annotations"),
  failed  |-> <<Fail>>]

(* asyncio.coroutines._is_coroutine, or a bool when it cannot be had.        *)
get_is_coroutine == [
  entry   |-> <<IfNull("func_is_coroutine", "make")>> \o Share("func_is_coroutine"),
  make    |-> <<If("coroutine", "import"), Goto("bool")>>,
  import  |-> <<New("fromlist", "failed"), New("module", ""), Drop("fromlist"), IfNull("module", "ignore"),
                New("func_is_coroutine", ""), Drop("module"), IfNull("func_is_coroutine", "ignore")>>
              \o Share("func_is_coroutine"),
  ignore  |-> <<NoError, Goto("bool")>>,
  bool    |-> <<Borrow("True"), Incref("True", "func_is_coroutine")>> \o Share("func_is_coroutine"),
  failed  |-> <<Fail>>]

reduce == [entry |-> Share("func_qualname")]

(* A variant of CyFunction_clear that forgets a field. *)
CyFunction_clear_KeepsCode == [
  entry   |-> <<XClear("m_module"), XClear("func_dict"), XClear("func_name"), XClear("func_qualname"),
                XClear("func_doc"), XClear("func_globals"), XClear("defaults_tuple"),
                XClear("defaults_kwdict"), XClear("func_annotations"), XClear("func_is_coroutine"), Succeed>>]

(* The end of the object.                                                    *)
CyFunction_clear == [
  entry   |-> <<XClear("m_module"), XClear("func_dict"), XClear("func_name"), XClear("func_qualname"),
                XClear("func_doc"), XClear("func_globals"), XClear("func_code"), XClear("defaults_tuple"),
                XClear("defaults_kwdict"), XClear("func_annotations"), XClear("func_is_coroutine"), Succeed>>]

CyFunction_dealloc == [
  entry   |-> <<Clear("function"), Call("CyFunction_clear", "", ""), Void>>]

----------------------------------------------------------------------------
FunctionCode == [
  get_doc |-> get_doc, set_doc |-> set_doc, get_name |-> get_name, set_name |-> set_name,
  get_qualname |-> get_qualname, set_qualname |-> set_qualname, get_dict |-> get_dict, set_dict |-> set_dict,
  get_globals |-> get_globals, get_closure |-> get_closure, get_code |-> get_code,
  get_defaults |-> get_defaults, set_defaults |-> set_defaults, get_kwdefaults |-> get_kwdefaults,
  set_kwdefaults |-> set_kwdefaults, init_defaults |-> init_defaults, get_annotations |-> get_annotations,
  set_annotations |-> set_annotations, get_is_coroutine |-> get_is_coroutine, reduce |-> reduce,
  CyFunction_clear |-> CyFunction_clear, CyFunction_dealloc |-> CyFunction_dealloc]

Attributes == DOMAIN FunctionCode \ {"init_defaults", "CyFunction_clear"}

(* When the object is gone, so is every reference it held.                   *)
FieldsReleased == mem[1]["function"] = "null" /\ stack = <<>> => \A f \in Fields : mem[1][f] = "null"
=============================================================================
