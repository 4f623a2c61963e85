SPECIFICATION FairSpec
CONSTANTS
  Token = {t1, t2}
  Process = {p1, p2}
  Night = {n1}
  Consumed = {"default", "payroll", "documents", "ocr", "notifications"}
  MaxRetries = 3
  None = None
PROPERTY
  ExpiredPruned
