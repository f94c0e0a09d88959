SPECIFICATION FairSpec
CONSTANTS
 Group = {"threads", "sem", "mtx", "msg", "evt", "mbx", "iq", "oq"}
 Prio = {2, 3}
 Main = main
 Idle = idle
 NoThread = nothread
 a = a
 b = b
 Thread = {main, idle, a, b}
 Quantum = 1
 Sem = {"s1","s2"}
 Mutex = {"m1","m2"}
 CondVar = {"c"}
 Object = {"s1","s2","m1","m2","c","iq","oq"}
 EmptySem = "s1"
 FullSem = "s2"
 MaxCnt = 2
 Event = {0,1}
 Size = 2
 Item = {"x","y"}
 MaxBytes = 2
 SetsPriorityAnyTime = FALSE
 ResetsAnyTime = FALSE
 Time = {1}
 Workers <- KernelWorkers
INVARIANTS
  TypeOK
  ListsRight
  ObjectsAgree
  NoWaitInVain
PROPERTIES
  InOrder
  WaitsEnd
