---------------------------- MODULE ResolvedSchema ---------------------------
(* The resolved AST: the structs of resolved_ast/node.go with the structs    *)
(* they embed, the getters each declares and the conversion each getter      *)
(* makes, the numbers of their kinds, and the struct newNode makes for each  *)
(* kind.                                                                     *)
EXTENDS Shapes, TLC

RootClasses ==
  [BaseNode |-> Class(NoBase, [Kind |-> ReadOnly(Enum("Kind")), IsScan |-> ReadOnly(Flag),
       IsExpression |-> ReadOnly(Flag), IsStatement |-> ReadOnly(Flag),
       DebugString |-> ReadOnly(Text), ParseLocationRange |-> ReadOnly(Obj("ParseLocationRange")),
       TreeDepth |-> ReadOnly(Num)]),
   BaseArgumentNode |-> Class("BaseNode", NoFields),
   BaseExprNode |-> Class("BaseNode", [Type |-> Obj("Type"),
       TypeAnnotationMap |-> Obj("AnnotationMap")]),
   LiteralNode |-> Class("BaseExprNode", [Value |-> Obj("Value"), HasExplicitType |-> Flag,
       FloatLiteralID |-> Num, PreserveInLiteralRemover |-> Flag])]

NameExprs ==
  [ParameterNode |-> Class("BaseExprNode", [Name |-> Text, Position |-> Num, IsUntyped |-> Flag]),
   ExpressionColumnNode |-> Class("BaseExprNode", [Name |-> Text]),
   ColumnRefNode |-> Class("BaseExprNode", [Column |-> Obj("Column"), IsCorrelated |-> Flag]),
   ConstantNode |-> Class("BaseExprNode", [Constant |-> Obj("Constant")]),
   SystemVariableNode |-> Class("BaseExprNode", [NamePath |-> Texts])]

LambdaExprs ==
  [InlineLambdaNode |-> Class("BaseArgumentNode", [ArgumentList |-> Objs("Column"),
       ParameterList |-> Many("ColumnRefNode"), Body |-> One("ExprNode")]),
   FilterFieldArgNode |-> Class("BaseArgumentNode", [Include |-> Flag])]

FilterFieldExprs ==
  [FilterFieldNode |-> Class("BaseExprNode", [Expr |-> One("ExprNode"),
       FilterFieldArgList |-> Many("FilterFieldArgNode"), ResetClearedRequiredFields |-> Flag])]

BaseCalls ==
  [BaseFunctionCallNode |-> Class("BaseExprNode", [Function |-> Obj("Function"),
       Signature |-> Obj("FunctionSignature"), ArgumentList |-> Many("ExprNode"),
       GenericArgumentList |-> Many("FunctionArgumentNode"), ErrorMode |-> Enum("ErrorMode"),
       HintList |-> Many("OptionNode"), CollationList |-> Objs("Collation")])]

ScalarCalls ==
  [FunctionCallNode |-> Class("BaseFunctionCallNode",
       [FunctionCallInfo |-> Obj("FunctionCallInfo")]),
   BaseNonScalarFunctionCallNode |-> Class("BaseFunctionCallNode", [Distinct |-> Flag,
       NullHandlingModifier |-> Enum("NullHandlingModifier"),
       WithGroupRowsSubquery |-> One("ScanNode"),
       WithGroupRowsParameterList |-> Many("ColumnRefNode")])]

AggregateCalls ==
  [AggregateFunctionCallNode |-> Class("BaseNonScalarFunctionCallNode",
       [HavingModifier |-> One("AggregateHavingModifierNode"),
        OrderByItemList |-> Many("OrderByItemNode"), Limit |-> One("ExprNode"),
        FunctionCallInfo |-> Obj("FunctionCallInfo")]),
   AnalyticFunctionCallNode |-> Class("BaseNonScalarFunctionCallNode",
       [WindowFrame |-> One("WindowFrameNode")]),
   ExtendedCastElementNode |-> Class("BaseArgumentNode", [FromType |-> Obj("Type"),
       ToType |-> Obj("Type"), Function |-> Obj("Function")])]

CastExprs ==
  [ExtendedCastNode |-> Class("BaseArgumentNode",
       [ElementList |-> Many("ExtendedCastElementNode")]),
   CastNode |-> Class("BaseExprNode", [Expr |-> One("ExprNode"), ReturnNullOnError |-> Flag,
       ExtendedCast |-> One("ExtendedCastNode"), Format |-> One("ExprNode"),
       TimeZone |-> One("ExprNode"), TypeParameters |-> Obj("TypeParameters")]),
   MakeStructNode |-> Class("BaseExprNode", [FieldList |-> Many("ExprNode")])]

ProtoExprs ==
  [MakeProtoNode |-> Class("BaseExprNode", [FieldList |-> Many("MakeProtoFieldNode")]),
   MakeProtoFieldNode |-> Class("BaseArgumentNode", [Format |-> Enum("FieldFormat"),
       Expr |-> One("ExprNode")]),
   GetStructFieldNode |-> Class("BaseExprNode", [Expr |-> One("ExprNode"), FieldIdx |-> Num])]

FieldExprs ==
  [GetProtoFieldNode |-> Class("BaseExprNode", [Expr |-> One("ExprNode"),
       DefaultValue |-> Obj("Value"), HasBit |-> Flag, Format |-> Enum("FieldFormat"),
       ReturnDefaultValueWhenUnset |-> Flag]),
   GetJsonFieldNode |-> Class("BaseExprNode", [Expr |-> One("ExprNode"), FieldName |-> Text])]

FlattenExprs ==
  [FlattenNode |-> Class("BaseExprNode", [Expr |-> One("ExprNode"),
       GetFieldList |-> Many("ExprNode")]),
   FlattenedArgNode |-> Class("BaseExprNode", NoFields),
   ReplaceFieldItemNode |-> Class("BaseArgumentNode", [Expr |-> One("ExprNode"),
       StructIndexPath |-> Nums])]

ReplaceFieldExprs ==
  [ReplaceFieldNode |-> Class("BaseExprNode", [Expr |-> One("ExprNode"),
       ReplaceFieldItemList |-> Many("ReplaceFieldItemNode")])]

SubqueryExprs ==
  [SubqueryExprNode |-> Class("BaseExprNode", [SubqueryType |-> Enum("SubqueryType"),
       ParameterList |-> Many("ColumnRefNode"), InExpr |-> One("ExprNode"),
       InCollation |-> Obj("Collation"), Subquery |-> One("ScanNode"),
       HintList |-> Many("OptionNode")])]

BaseScans ==
  [LetExprNode |-> Class("BaseExprNode", [AssignmentList |-> Many("ComputedColumnNode"),
       Expr |-> One("ExprNode")]),
   BaseScanNode |-> Class("BaseNode", [ColumnList |-> Objs("Column"),
       HintList |-> Many("OptionNode"), IsOrdered |-> Flag]),
   ModelNode |-> Class("BaseArgumentNode", [Model |-> Obj("Model")])]

TvfArguments ==
  [ConnectionNode |-> Class("BaseArgumentNode", [Connection |-> Obj("Connection")]),
   DescriptorNode |-> Class("BaseArgumentNode", [DescriptorColumnList |-> Objs("Column"),
       DescriptorColumnNameList |-> Texts]),
   SingleRowScanNode |-> Class("BaseScanNode", NoFields)]

TableScans ==
  [TableScanNode |-> Class("BaseScanNode", [Table |-> Obj("Table"),
       ForSystemTimeExpr |-> One("ExprNode"), ColumnIndexList |-> Nums, Alias |-> Text]),
   JoinScanNode |-> Class("BaseScanNode", [JoinType |-> Enum("JoinType"),
       LeftScan |-> One("ScanNode"), RightScan |-> One("ScanNode"), JoinExpr |-> One("ExprNode")])]

ArrayScans ==
  [ArrayScanNode |-> Class("BaseScanNode", [InputScan |-> One("ScanNode"),
       ArrayExpr |-> One("ExprNode"), ElementColumn |-> Obj("Column"),
       ArrayOffsetColumn |-> One("ColumnHolderNode"), JoinExpr |-> One("ExprNode"),
       IsOuter |-> Flag]),
   ColumnHolderNode |-> Class("BaseArgumentNode", [Column |-> Obj("Column")]),
   FilterScanNode |-> Class("BaseScanNode", [InputScan |-> One("ScanNode"),
       FilterExpr |-> One("ExprNode")])]

Groupings ==
  [GroupingSetNode |-> Class("BaseArgumentNode", [GroupByColumnList |-> Many("ColumnRefNode")]),
   BaseAggregateScanNode |-> Class("BaseScanNode", [InputScan |-> One("ScanNode"),
       GroupByList |-> Many("ComputedColumnNode"), CollationList |-> Objs("Collation"),
       AggregateList |-> Many("ComputedColumnNode")])]

AggregateScans ==
  [AggregateScanNode |-> Class("BaseAggregateScanNode",
       [GroupingSetList |-> Many("GroupingSetNode"), RollupColumnList |-> Many("ColumnRefNode")]),
   AnonymizedAggregateScanNode |-> Class("BaseAggregateScanNode",
       [KThresholdExpr |-> One("ColumnRefNode"), AnonymizationOptionList |-> Many("OptionNode")]),
   SetOperationItemNode |-> Class("BaseArgumentNode", [Scan |-> One("ScanNode"),
       OutputColumnList |-> Objs("Column")])]

SetOperationScans ==
  [SetOperationScanNode |-> Class("BaseScanNode", [OpType |-> Enum("SetOperationType"),
       InputItemList |-> Many("SetOperationItemNode")]),
   OrderByScanNode |-> Class("BaseScanNode", [InputScan |-> One("ScanNode"),
       OrderByItemList |-> Many("OrderByItemNode")])]

LimitScans ==
  [LimitOffsetScanNode |-> Class("BaseScanNode", [InputScan |-> One("ScanNode"),
       Limit |-> One("ExprNode"), Offset |-> One("ExprNode")]),
   WithRefScanNode |-> Class("BaseScanNode", [WithQueryName |-> Text]),
   AnalyticScanNode |-> Class("BaseScanNode", [InputScan |-> One("ScanNode"),
       FunctionGroupList |-> Many("AnalyticFunctionGroupNode")])]

SampleScans ==
  [SampleScanNode |-> Class("BaseScanNode", [InputScan |-> One("ScanNode"), Method |-> Text,
       Size |-> One("ExprNode"), Unit |-> Enum("SampleUnit"),
       RepeatableArgument |-> One("ExprNode"), WeightColumn |-> One("ColumnHolderNode"),
       PartitionByList |-> Many("ExprNode")]),
   ComputedColumnNode |-> Class("BaseArgumentNode", [Column |-> Obj("Column"),
       Expr |-> One("ExprNode")])]

OrderByItems ==
  [OrderByItemNode |-> Class("BaseArgumentNode", [ColumnRef |-> One("ColumnRefNode"),
       CollationName |-> One("ExprNode"), IsDescending |-> Flag,
       NullOrder |-> Enum("NullOrderMode"), Collation |-> Obj("Collation")])]

ColumnAnnotations ==
  [ColumnAnnotationsNode |-> Class("BaseArgumentNode", [CollationName |-> One("ExprNode"),
       NotNull |-> Flag, OptionList |-> Many("OptionNode"),
       ChildList |-> Many("ColumnAnnotationsNode"), TypeParameters |-> Obj("TypeParameters")]),
   GeneratedColumnInfoNode |-> Class("BaseArgumentNode", [Expression |-> One("ExprNode"),
       StoredMode |-> Enum("StoredMode")])]

ColumnDefinitions ==
  [ColumnDefaultValueNode |-> Class("BaseArgumentNode", [Expression |-> One("ExprNode"),
       SQL |-> Text]),
   ColumnDefinitionNode |-> Class("BaseArgumentNode", [Name |-> Text, Type |-> Obj("Type"),
       Annotations |-> One("ColumnAnnotationsNode"), IsHidden |-> Flag, Column |-> Obj("Column"),
       GeneratedColumnInfo |-> One("GeneratedColumnInfoNode"),
       DefaultValue |-> One("ColumnDefaultValueNode")]),
   BaseConstraintNode |-> Class("BaseArgumentNode", NoFields)]

PrimaryKeys ==
  [PrimaryKeyNode |-> Class("BaseConstraintNode", [ColumnOffsetList |-> Nums,
       OptionList |-> Many("OptionNode"), Unenforced |-> Flag, ConstraintName |-> Text,
       ColumnNameList |-> Texts])]

ForeignKeys ==
  [ForeignKeyNode |-> Class("BaseConstraintNode", [ConstraintName |-> Text,
       ReferencingColumnOffsetList |-> Nums, ReferencedTable |-> Obj("Table"),
       ReferencedColumnOffsetList |-> Nums, MatchMode |-> Enum("MatchMode"),
       UpdateAction |-> Enum("ActionOperation"), DeleteAction |-> Enum("ActionOperation"),
       Enforced |-> Flag, OptionList |-> Many("OptionNode"), ReferencingColumnList |-> Texts])]

ProjectScans ==
  [CheckConstraintNode |-> Class("BaseConstraintNode", [ConstraintName |-> Text,
       Expression |-> One("ExprNode"), Enforced |-> Flag, OptionList |-> Many("OptionNode")]),
   OutputColumnNode |-> Class("BaseArgumentNode", [Name |-> Text, Column |-> Obj("Column")]),
   ProjectScanNode |-> Class("BaseScanNode", [ExprList |-> Many("ComputedColumnNode"),
       InputScan |-> One("ScanNode")])]

TvfScans ==
  [TVFScanNode |-> Class("BaseScanNode", [TVF |-> Obj("TableValuedFunction"),
       Signature |-> Obj("TVFSignature"), ArgumentList |-> Many("FunctionArgumentNode"),
       ColumnIndexList |-> Nums, Alias |-> Text,
       FunctionCallSignature |-> Obj("FunctionSignature")])]

FunctionArguments ==
  [GroupRowsScanNode |-> Class("BaseScanNode", [InputColumnList |-> Many("ComputedColumnNode"),
       Alias |-> Text]),
   FunctionArgumentNode |-> Class("BaseArgumentNode", [Expr |-> One("ExprNode"),
       Scan |-> One("ScanNode"), Model |-> One("ModelNode"), Connection |-> One("ConnectionNode"),
       DescriptorArg |-> One("DescriptorNode"), ArgumentColumnList |-> Objs("Column"),
       InlineLambda |-> One("InlineLambdaNode")])]

QueryStmts ==
  [BaseStatementNode |-> Class("BaseNode", [HintList |-> Many("OptionNode")]),
   ExplainStmtNode |-> Class("BaseStatementNode", [Statement |-> One("StatementNode")]),
   QueryStmtNode |-> Class("BaseStatementNode", [OutputColumnList |-> Many("OutputColumnNode"),
       IsValueTable |-> Flag, Query |-> One("ScanNode")]),
   CreateDatabaseStmtNode |-> Class("BaseStatementNode", [NamePath |-> Texts,
       OptionList |-> Many("OptionNode")])]

IndexItems ==
  [BaseCreateStatementNode |-> Class("BaseStatementNode", [NamePath |-> Texts,
       CreateScope |-> Enum("CreateScope"), CreateMode |-> Enum("CreateMode")]),
   IndexItemNode |-> Class("BaseArgumentNode", [ColumnRef |-> One("ColumnRefNode"),
       Descending |-> Flag]),
   UnnestItemNode |-> Class("BaseArgumentNode", [ArrayExpr |-> One("ExprNode"),
       ElementColumn |-> Obj("Column"), ArrayOffsetColumn |-> One("ColumnHolderNode")])]

IndexStmts ==
  [CreateIndexStmtNode |-> Class("BaseCreateStatementNode", [TableNamePath |-> Texts,
       TableScan |-> One("TableScanNode"), IsUnique |-> Flag, IsSearch |-> Flag,
       IndexAllColumns |-> Flag, IndexItemList |-> Many("IndexItemNode"),
       StoringExpressionList |-> Many("ExprNode"), OptionList |-> Many("OptionNode"),
       ComputedColumnsList |-> Many("ComputedColumnNode"),
       UnnestExpressionList |-> Many("UnnestItemNode")])]

SchemaStmts ==
  [CreateSchemaStmtNode |-> Class("BaseCreateStatementNode", [CollationName |-> One("ExprNode"),
       OptionList |-> Many("OptionNode")])]

BaseTableStmts ==
  [BaseCreateTableStmtNode |-> Class("BaseCreateStatementNode", [OptionList |-> Many("OptionNode"),
       ColumnDefinitionList |-> Many("ColumnDefinitionNode"), PseudoColumnList |-> Objs("Column"),
       PrimaryKey |-> One("PrimaryKeyNode"), ForeignKeyList |-> Many("ForeignKeyNode"),
       CheckConstraintList |-> Many("CheckConstraintNode"), IsValueTable |-> Flag,
       LikeTable |-> Obj("Table"), CollationName |-> One("ExprNode")])]

TableStmts ==
  [CreateTableStmtNode |-> Class("BaseCreateTableStmtNode", [CloneFrom |-> One("ScanNode"),
       CopyFrom |-> One("ScanNode"), PartitionByList |-> Many("ExprNode"),
       ClusterByList |-> Many("ExprNode")])]

TableAsSelectStmts ==
  [CreateTableAsSelectStmtNode |-> Class("BaseCreateTableStmtNode",
       [PartitionByList |-> Many("ExprNode"), ClusterByList |-> Many("ExprNode"),
        OutputColumnList |-> Many("OutputColumnNode"), Query |-> One("ScanNode")])]

ModelStmts ==
  [CreateModelStmtNode |-> Class("BaseCreateStatementNode", [OptionList |-> Many("OptionNode"),
       OutputColumnList |-> Many("OutputColumnNode"), Query |-> One("ScanNode"),
       TransformInputColumnList |-> Many("ColumnDefinitionNode"),
       TransformList |-> Many("ComputedColumnNode"),
       TransformOutputColumnList |-> Many("OutputColumnNode"),
       TransformAnalyticFunctionGroupList |-> Many("AnalyticFunctionGroupNode")])]

ViewStmts ==
  [BaseCreateViewNode |-> Class("BaseCreateStatementNode", [OptionList |-> Many("OptionNode"),
       OutputColumnList |-> Many("OutputColumnNode"), HasExplicitColumns |-> Flag,
       Query |-> One("ScanNode"), SQL |-> Text, SQLSecurity |-> Enum("SQLSecurity"),
       IsValueTable |-> Flag, Recursive |-> Flag]),
   CreateViewStmtNode |-> Class("BaseCreateViewNode", NoFields)]

ExternalTableStmts ==
  [WithPartitionColumnsNode |-> Class("BaseArgumentNode",
       [ColumnDefinitionList |-> Many("ColumnDefinitionNode")]),
   CreateSnapshotTableStmtNode |-> Class("BaseCreateStatementNode", [CloneFrom |-> One("ScanNode"),
       OptionList |-> Many("OptionNode")]),
   CreateExternalTableStmtNode |-> Class("BaseCreateTableStmtNode",
       [WithPartitionColumns |-> One("WithPartitionColumnsNode"),
        Connection |-> One("ConnectionNode")])]

ExportModelStmts ==
  [ExportModelStmtNode |-> Class("BaseStatementNode", [ModelNamePath |-> Texts,
       Connection |-> One("ConnectionNode"), OptionList |-> Many("OptionNode")])]

ExportDataStmts ==
  [ExportDataStmtNode |-> Class("BaseStatementNode", [Connection |-> One("ConnectionNode"),
       OptionList |-> Many("OptionNode"), OutputColumnList |-> Many("OutputColumnNode"),
       IsValueTable |-> Flag, Query |-> One("ScanNode")]),
   DefineTableStmtNode |-> Class("BaseStatementNode", [NamePath |-> Texts,
       OptionList |-> Many("OptionNode")])]

ShowStmts ==
  [DescribeStmtNode |-> Class("BaseStatementNode", [ObjectType |-> Text, NamePath |-> Texts,
       FromNamePath |-> Texts]),
   ShowStmtNode |-> Class("BaseStatementNode", [Identifier |-> Text, NamePath |-> Texts,
       LikeExpr |-> One("LiteralNode")])]

TransactionStmts ==
  [BeginStmtNode |-> Class("BaseStatementNode", [ReadWriteMode |-> Enum("ReadWriteMode"),
       IsolationLevelList |-> Texts]),
   SetTransactionStmtNode |-> Class("BaseStatementNode", [ReadWriteMode |-> Enum("ReadWriteMode"),
       IsolationLevelList |-> Texts]),
   CommitStmtNode |-> Class("BaseStatementNode", NoFields),
   RollbackStmtNode |-> Class("BaseStatementNode", NoFields),
   StartBatchStmtNode |-> Class("BaseStatementNode", [BatchType |-> Text]),
   RunBatchStmtNode |-> Class("BaseStatementNode", NoFields),
   AbortBatchStmtNode |-> Class("BaseStatementNode", NoFields)]

DropStmts ==
  [DropStmtNode |-> Class("BaseStatementNode", [ObjectType |-> Text, IsIfExists |-> Flag,
       NamePath |-> Texts, DropMode |-> Enum("DropMode")]),
   DropMaterializedViewStmtNode |-> Class("BaseStatementNode", [IsIfExists |-> Flag,
       NamePath |-> Texts]),
   DropSnapshotTableStmtNode |-> Class("BaseStatementNode", [IsIfExists |-> Flag,
       NamePath |-> Texts]),
   RecursiveRefScanNode |-> Class("BaseScanNode", NoFields)]

RecursiveScans ==
  [RecursiveScanNode |-> Class("BaseScanNode", [OpType |-> Enum("RecursiveSetOperationType"),
       NonRecursiveTerm |-> One("SetOperationItemNode"),
       RecursiveTerm |-> One("SetOperationItemNode")])]

WithScans ==
  [WithScanNode |-> Class("BaseScanNode", [WithEntryList |-> Many("WithEntryNode"),
       Query |-> One("ScanNode"), Recursive |-> Flag]),
   WithEntryNode |-> Class("BaseArgumentNode", [WithQueryName |-> Text,
       WithSubquery |-> One("ScanNode")])]

OptionsAndWindows ==
  [OptionNode |-> Class("BaseArgumentNode", [Qualifier |-> Text, Name |-> Text,
       Value |-> One("ExprNode")]),
   WindowPartitioningNode |-> Class("BaseArgumentNode", [PartitionByList |-> Many("ColumnRefNode"),
       HintList |-> Many("OptionNode")])]

WindowFrames ==
  [WindowOrderingNode |-> Class("BaseArgumentNode", [OrderByItemList |-> Many("OrderByItemNode"),
       HintList |-> Many("OptionNode")]),
   WindowFrameNode |-> Class("BaseArgumentNode", [FrameUnit |-> Enum("FrameUnit"),
       StartExpr |-> One("WindowFrameExprNode"), EndExpr |-> One("WindowFrameExprNode")]),
   AnalyticFunctionGroupNode |-> Class("BaseArgumentNode",
       [PartitionBy |-> One("WindowPartitioningNode"), OrderBy |-> One("WindowOrderingNode"),
        AnalyticFunctionList |-> Many("ComputedColumnNode")])]

DmlValues ==
  [WindowFrameExprNode |-> Class("BaseArgumentNode", [BoundaryType |-> Enum("BoundaryType"),
       Expression |-> One("ExprNode")]),
   DMLValueNode |-> Class("BaseArgumentNode", [Value |-> One("ExprNode")]),
   DMLDefaultNode |-> Class("BaseExprNode", NoFields),
   AssertStmtNode |-> Class("BaseStatementNode", [Expression |-> AnswersZero(One("ExprNode")),
       Description |-> Text]),
   AssertRowsModifiedNode |-> Class("BaseArgumentNode", [Rows |-> One("ExprNode")]),
   InsertRowNode |-> Class("BaseArgumentNode", [ValueList |-> Many("DMLValueNode")])]

InsertStmts ==
  [InsertStmtNode |-> Class("BaseStatementNode", [TableScan |-> One("TableScanNode"),
       InsertMode |-> Enum("InsertMode"), AssertRowsModified |-> One("AssertRowsModifiedNode"),
       Returning |-> One("ReturningClauseNode"), InsertColumnList |-> Objs("Column"),
       QueryParameterList |-> Many("ColumnRefNode"), Query |-> One("ScanNode"),
       QueryOutputColumnList |-> Objs("Column"), RowList |-> Many("InsertRowNode")])]

DeleteStmts ==
  [DeleteStmtNode |-> Class("BaseStatementNode", [TableScan |-> One("TableScanNode"),
       AssertRowsModified |-> One("AssertRowsModifiedNode"),
       Returning |-> One("ReturningClauseNode"), ArrayOffsetColumn |-> One("ColumnHolderNode"),
       WhereExpr |-> One("ExprNode")])]

UpdateItemHead ==
  [Target |-> One("ExprNode"), SetValue |-> One("DMLValueNode"),
   ElementColumn |-> One("ColumnHolderNode"), ArrayUpdateList |-> Many("UpdateArrayItemNode")]

UpdateItemTail ==
  [DeleteList |-> Many("DeleteStmtNode"), UpdateList |-> Many("UpdateStmtNode"),
   InsertList |-> Many("InsertStmtNode")]

UpdateItems ==
  [UpdateItemNode |->
     Class("BaseArgumentNode", UpdateItemHead @@ UpdateItemTail)]

UpdateArrayItems ==
  [UpdateArrayItemNode |-> Class("BaseArgumentNode", [Offset |-> One("ExprNode"),
       UpdateItem |-> One("UpdateItemNode")])]

UpdateStmts ==
  [UpdateStmtNode |-> Class("BaseStatementNode", [TableScan |-> One("TableScanNode"),
       ColumnAccessList |-> Enums("ObjectAccess"),
       AssertRowsModified |-> One("AssertRowsModifiedNode"),
       Returning |-> One("ReturningClauseNode"), ArrayOffsetColumn |-> One("ColumnHolderNode"),
       WhereExpr |-> One("ExprNode"), UpdateItemList |-> Many("UpdateItemNode"),
       FromScan |-> One("ScanNode")])]

MergeClauses ==
  [MergeWhenNode |-> Class("BaseArgumentNode", [MatchType |-> Enum("MatchType"),
       MatchExpr |-> One("ExprNode"), ActionType |-> Enum("ActionType"),
       InsertColumnList |-> Objs("Column"), InsertRow |-> One("InsertRowNode"),
       UpdateItemList |-> Many("UpdateItemNode")])]

MergeStmts ==
  [MergeStmtNode |-> Class("BaseStatementNode", [TableScan |-> One("TableScanNode"),
       ColumnAccessList |-> Enums("ObjectAccess"), FromScan |-> One("ScanNode"),
       MergeExpr |-> One("ExprNode"), WhenClauseList |-> Many("MergeWhenNode")]),
   TruncateStmtNode |-> Class("BaseStatementNode", [TableScan |-> One("TableScanNode"),
       WhereExpr |-> One("ExprNode")])]

Privileges ==
  [ObjectUnitNode |-> Class("BaseArgumentNode", [NamePath |-> Texts]),
   PrivilegeNode |-> Class("BaseArgumentNode", [ActionType |-> Text,
       UnitList |-> Many("ObjectUnitNode")])]

GrantStmts ==
  [GrantOrRevokeStmtNode |-> Class("BaseStatementNode", [PrivilegeList |-> Many("PrivilegeNode"),
       ObjectType |-> Text, NamePath |-> Texts, GranteeList |-> Texts,
       GranteeExprList |-> Many("ExprNode")]),
   GrantStmtNode |-> Class("GrantOrRevokeStmtNode", NoFields),
   RevokeStmtNode |-> Class("GrantOrRevokeStmtNode", NoFields)]

AlterStmts ==
  [AlterObjectStmtNode |-> Class("BaseStatementNode", [NamePath |-> Texts,
       AlterActionList |-> Many("AlterActionNode"), IsIfExists |-> Flag]),
   AlterDatabaseStmtNode |-> Class("AlterObjectStmtNode", NoFields),
   AlterMaterializedViewStmtNode |-> Class("AlterObjectStmtNode", NoFields),
   AlterSchemaStmtNode |-> Class("AlterObjectStmtNode", NoFields),
   AlterTableStmtNode |-> Class("AlterObjectStmtNode", NoFields),
   AlterViewStmtNode |-> Class("AlterObjectStmtNode", NoFields),
   BaseAlterActionNode |-> Class("BaseArgumentNode", NoFields),
   BaseAlterColumnActionNode |-> Class("BaseAlterActionNode", [IsIfExists |-> Flag,
       Column |-> Text])]

AlterTableActions ==
  [SetOptionsActionNode |-> Class("BaseAlterActionNode", [OptionList |-> Many("OptionNode")]),
   AddColumnActionNode |-> Class("BaseAlterActionNode", [IsIfNotExists |-> Flag,
       ColumnDefinition |-> One("ColumnDefinitionNode")]),
   AddConstraintActionNode |-> Class("BaseAlterActionNode", [IsIfNotExists |-> Flag,
       Constraint |-> One("ConstraintNode"), Table |-> Obj("Table")]),
   DropConstraintActionNode |-> Class("BaseAlterActionNode", [IsIfExists |-> Flag, Name |-> Text]),
   DropPrimaryKeyActionNode |-> Class("BaseAlterActionNode", [IsIfExists |-> Flag])]

AlterColumnActions ==
  [AlterColumnOptionsActionNode |-> Class("BaseAlterColumnActionNode",
       [OptionList |-> Many("OptionNode")]),
   AlterColumnDropNotNullActionNode |-> Class("BaseAlterColumnActionNode", NoFields),
   AlterColumnSetDataTypeActionNode |-> Class("BaseAlterColumnActionNode",
       [UpdatedType |-> Obj("Type"), UpdatedTypeParameters |-> Obj("TypeParameters"),
        UpdatedAnnotations |-> One("ColumnAnnotationsNode")]),
   AlterColumnSetDefaultActionNode |-> Class("BaseAlterColumnActionNode",
       [DefaultValue |-> One("ColumnDefaultValueNode")]),
   AlterColumnDropDefaultActionNode |-> Class("BaseAlterColumnActionNode", NoFields),
   DropColumnActionNode |-> Class("BaseAlterActionNode", [IsIfExists |-> Flag, Name |-> Text])]

RenameActions ==
  [RenameColumnActionNode |-> Class("BaseAlterActionNode", [IsIfExists |-> Flag, Name |-> Text,
       NewName |-> Text]),
   SetAsActionNode |-> Class("BaseAlterActionNode", [EntityBodyJSON |-> Text,
       EntityBodyText |-> Text]),
   SetCollateClauseNode |-> Class("BaseAlterActionNode", [CollationName |-> One("ExprNode")])]

RenameStmts ==
  [AlterTableSetOptionsStmtNode |-> Class("BaseStatementNode", [NamePath |-> Texts,
       OptionList |-> Many("OptionNode"), IsIfExists |-> Flag]),
   RenameStmtNode |-> Class("BaseStatementNode", [ObjectType |-> Text, OldNamePath |-> Texts,
       NewNamePath |-> Texts])]

PrivilegeRestrictions ==
  [CreatePrivilegeRestrictionStmtNode |-> Class("BaseCreateStatementNode",
       [ColumnPrivilegeList |-> Many("PrivilegeNode"), ObjectType |-> Text,
        RestricteeList |-> Many("ExprNode")])]

RowAccessPolicies ==
  [CreateRowAccessPolicyStmtNode |-> Class("BaseStatementNode", [CreateMode |-> Enum("CreateMode"),
       Name |-> Text, TargetNamePath |-> Texts, GranteeList |-> Texts,
       GranteeExprList |-> Many("ExprNode"), TableScan |-> One("TableScanNode"),
       Predicate |-> One("ExprNode"), PredicateStr |-> Text])]

DropPolicies ==
  [DropPrivilegeRestrictionStmtNode |-> Class("BaseStatementNode", [ObjectType |-> Text,
       IsIfExists |-> Flag, NamePath |-> Texts, ColumnPrivilegeList |-> Many("PrivilegeNode")]),
   DropRowAccessPolicyStmtNode |-> Class("BaseStatementNode", [IsDropAll |-> Flag,
       IsIfExists |-> Flag, Name |-> Text, TargetNamePath |-> Texts])]

RestricteeActions ==
  [DropSearchIndexStmtNode |-> Class("BaseStatementNode", [IsIfExists |-> Flag, Name |-> Text,
       TableNamePath |-> Texts]),
   GrantToActionNode |-> Class("BaseAlterActionNode", [GranteeExprList |-> Many("ExprNode")]),
   RestrictToActionNode |-> Class("BaseAlterActionNode", [RestricteeList |-> Many("ExprNode")]),
   AddToRestricteeListActionNode |-> Class("BaseAlterActionNode", [IsIfNotExists |-> Flag,
       RestricteeList |-> Many("ExprNode")])]

PolicyActions ==
  [RemoveFromRestricteeListActionNode |-> Class("BaseAlterActionNode", [IsIfExists |-> Flag,
       RestricteeList |-> Many("ExprNode")]),
   FilterUsingActionNode |-> Class("BaseAlterActionNode", [Predicate |-> One("ExprNode"),
       PredicateStr |-> Text]),
   RevokeFromActionNode |-> Class("BaseAlterActionNode", [RevokeeExprList |-> Many("ExprNode"),
       IsRevokeFromAll |-> Flag]),
   RenameToActionNode |-> Class("BaseAlterActionNode", [NewPath |-> ReadsHeader(Texts)])]

AlterPolicyStmts ==
  [AlterPrivilegeRestrictionStmtNode |-> Class("AlterObjectStmtNode",
       [ColumnPrivilegeList |-> Many("PrivilegeNode"), ObjectType |-> Text]),
   AlterRowAccessPolicyStmtNode |-> Class("AlterObjectStmtNode", [Name |-> Text,
       TableScan |-> One("TableScanNode")]),
   AlterAllRowAccessPoliciesStmtNode |-> Class("AlterObjectStmtNode",
       [TableScan |-> One("TableScanNode")]),
   CreateConstantStmtNode |-> Class("BaseCreateStatementNode", [Expr |-> One("ExprNode")])]

CreateFunctionStmtHead ==
  [HasExplicitReturnType |-> Flag, ReturnType |-> Obj("Type"), ArgumentNameList |-> Texts,
   Signature |-> Obj("FunctionSignature"), IsAggregate |-> Flag, Language |-> Text, Code |-> Text]

CreateFunctionStmtTail ==
  [AggregateExpressionList |-> Many("ComputedColumnNode"), FunctionExpression |-> One("ExprNode"),
   OptionList |-> Many("OptionNode"), SQLSecurity |-> Enum("SQLSecurity"),
   DeterminismLevel |-> Enum("DeterminismLevel"), IsRemote |-> Flag,
   Connection |-> One("ConnectionNode")]

FunctionStmts ==
  [CreateFunctionStmtNode |->
     Class("BaseCreateStatementNode", CreateFunctionStmtHead @@ CreateFunctionStmtTail)]

ArgumentDefs ==
  [ArgumentDefNode |-> Class("BaseArgumentNode", [Name |-> Text, Type |-> Obj("Type"),
       ArgumentKind |-> Enum("ArgumentKind")]),
   ArgumentRefNode |-> Class("BaseExprNode", [Name |-> Text,
       ArgumentKind |-> Enum("ArgumentKind")])]

CreateTableFunctionStmtHead ==
  [ArgumentNameList |-> Texts, Signature |-> Obj("FunctionSignature"),
   HasExplicitReturnSchema |-> Flag, OptionList |-> Many("OptionNode"), Language |-> Text]

CreateTableFunctionStmtTail ==
  [Code |-> Text, Query |-> One("ScanNode"), OutputColumnList |-> Many("OutputColumnNode"),
   IsValueTable |-> Flag, SQLSecurity |-> Enum("SQLSecurity")]

TableFunctionStmts ==
  [CreateTableFunctionStmtNode |->
     Class("BaseCreateStatementNode", CreateTableFunctionStmtHead @@ CreateTableFunctionStmtTail)]

ArgumentLists ==
  [RelationArgumentScanNode |-> Class("BaseScanNode", [Name |-> Text, IsValueTable |-> Flag]),
   ArgumentListNode |-> Class("BaseArgumentNode", [ArgList |-> Many("ArgumentDefNode")]),
   FunctionSignatureHolderNode |-> Class("BaseArgumentNode",
       [Signature |-> Obj("FunctionSignature")])]

DropFunctionStmts ==
  [DropFunctionStmtNode |-> Class("BaseStatementNode", [IsIfExists |-> Flag, NamePath |-> Texts,
       Arguments |-> One("ArgumentListNode"), Signature |-> One("FunctionSignatureHolderNode")]),
   DropTableFunctionStmtNode |-> Class("BaseStatementNode", [IsIfExists |-> Flag,
       NamePath |-> Texts])]

CallStmts ==
  [CallStmtNode |-> Class("BaseStatementNode", [Procedure |-> Obj("Procedure"),
       Signature |-> Obj("FunctionSignature"), ArgumentList |-> Many("ExprNode")])]

ImportStmts ==
  [ImportStmtNode |-> Class("BaseStatementNode", [ImportKind |-> Enum("ImportKind"),
       NamePath |-> Texts, FilePath |-> Text, AliasPath |-> Texts, IntoAliasPath |-> Texts,
       OptionList |-> Many("OptionNode")])]

ModuleStmts ==
  [ModuleStmtNode |-> Class("BaseStatementNode", [NamePath |-> Texts,
       OptionList |-> Many("OptionNode")]),
   AggregateHavingModifierNode |-> Class("BaseArgumentNode",
       [ModifierKind |-> Enum("HavingModifierKind"), HavingExpr |-> One("ExprNode")])]

MaterializedViewStmts ==
  [CreateMaterializedViewStmtNode |-> Class("BaseCreateViewNode",
       [ColumnDefinitionList |-> Many("ColumnDefinitionNode"),
        PartitionByList |-> Many("ExprNode"), ClusterByList |-> Many("ExprNode")])]

ProcedureStmts ==
  [CreateProcedureStmtNode |-> Class("BaseCreateStatementNode", [ArgumentNameList |-> Texts,
       Signature |-> Obj("FunctionSignature"), OptionList |-> Many("OptionNode"),
       ProcedureBody |-> Text]),
   ExecuteImmediateArgumentNode |-> Class("BaseArgumentNode", [Name |-> Text,
       Expression |-> One("ExprNode")])]

ExecuteImmediateStmts ==
  [ExecuteImmediateStmtNode |-> Class("BaseStatementNode", [SQL |-> Text,
       IntoIdentifierList |-> Texts, UsingArgumentList |-> Many("ExecuteImmediateArgumentNode")]),
   AssignmentStmtNode |-> Class("BaseStatementNode", [Target |-> One("ExprNode"),
       Expr |-> One("ExprNode")])]

EntityStmts ==
  [CreateEntityStmtNode |-> Class("BaseCreateStatementNode", [EntityType |-> Text,
       EntityBodyJSON |-> Text, EntityBodyText |-> Text, OptionList |-> Many("OptionNode")]),
   AlterEntityStmtNode |-> Class("AlterObjectStmtNode", [EntityType |-> Text]),
   PivotColumnNode |-> Class("BaseArgumentNode", [Column |-> Obj("Column"), PivotExprIndex |-> Num,
       PivotValueIndex |-> Num])]

PivotScans ==
  [PivotScanNode |-> Class("BaseScanNode", [InputScan |-> One("ScanNode"),
       GroupByList |-> Many("ComputedColumnNode"), PivotExprList |-> Many("ExprNode"),
       ForExpr |-> One("ExprNode"), PivotValueList |-> Many("ExprNode"),
       PivotColumnList |-> Many("PivotColumnNode")])]

ReturningClauses ==
  [ReturningClauseNode |-> Class("BaseArgumentNode",
       [OutputColumnList |-> Many("OutputColumnNode"), ActionColumn |-> One("ColumnHolderNode"),
        ExprList |-> Many("ComputedColumnNode")]),
   UnpivotArgNode |-> Class("BaseArgumentNode", [ColumnList |-> Many("ColumnRefNode")])]

UnpivotScans ==
  [UnpivotScanNode |-> Class("BaseScanNode", [InputScan |-> One("ScanNode"),
       ValueColumnList |-> Objs("Column"), LabelColumn |-> Obj("Column"),
       LabelList |-> Many("LiteralNode"), UnpivotArgList |-> Many("UnpivotArgNode"),
       ProjectedInputColumnList |-> Many("ComputedColumnNode"), IncludeNulls |-> Flag])]

AnalyzeStmts ==
  [CloneDataStmtNode |-> Class("BaseStatementNode", [TargetTable |-> One("TableScanNode"),
       CloneFrom |-> One("ScanNode")]),
   TableAndColumnInfoNode |-> Class("BaseArgumentNode", [Table |-> Obj("Table"),
       ColumnIndexList |-> Nums]),
   AnalyzeStmtNode |-> Class("BaseStatementNode", [OptionList |-> Many("OptionNode"),
       TableAndColumnIndexList |-> Many("TableAndColumnInfoNode")])]

AuxLoadDataStmtHead ==
  [InsertionMode |-> Enum("InsertionMode"), NamePath |-> Texts,
   OutputColumnList |-> Many("OutputColumnNode"),
   ColumnDefinitionList |-> Many("ColumnDefinitionNode"), PseudoColumnList |-> Objs("Column"),
   PrimaryKey |-> One("PrimaryKeyNode"), ForeignKeyList |-> Many("ForeignKeyNode")]

AuxLoadDataStmtTail ==
  [CheckConstraintList |-> Many("CheckConstraintNode"), PartitionByList |-> Many("ExprNode"),
   ClusterByList |-> Many("ExprNode"), OptionList |-> Many("OptionNode"),
   WithPartitionColumns |-> One("WithPartitionColumnsNode"), Connection |-> One("ConnectionNode"),
   FromFilesOptionList |-> Many("OptionNode")]

LoadDataStmts ==
  [AuxLoadDataStmtNode |->
     Class("BaseStatementNode", AuxLoadDataStmtHead @@ AuxLoadDataStmtTail)]

\* All structs of the resolved AST.
ResolvedClasses ==
  RootClasses @@ NameExprs @@ LambdaExprs @@ FilterFieldExprs @@ BaseCalls @@ ScalarCalls @@
   AggregateCalls @@ CastExprs @@ ProtoExprs @@ FieldExprs @@ FlattenExprs @@ ReplaceFieldExprs @@
   SubqueryExprs @@ BaseScans @@ TvfArguments @@ TableScans @@ ArrayScans @@ Groupings @@
   AggregateScans @@ SetOperationScans @@ LimitScans @@ SampleScans @@ OrderByItems @@
   ColumnAnnotations @@ ColumnDefinitions @@ PrimaryKeys @@ ForeignKeys @@ ProjectScans @@
   TvfScans @@ FunctionArguments @@ QueryStmts @@ IndexItems @@ IndexStmts @@ SchemaStmts @@
   BaseTableStmts @@ TableStmts @@ TableAsSelectStmts @@ ModelStmts @@ ViewStmts @@
   ExternalTableStmts @@ ExportModelStmts @@ ExportDataStmts @@ ShowStmts @@ TransactionStmts @@
   DropStmts @@ RecursiveScans @@ WithScans @@ OptionsAndWindows @@ WindowFrames @@ DmlValues @@
   InsertStmts @@ DeleteStmts @@ UpdateItems @@ UpdateArrayItems @@ UpdateStmts @@ MergeClauses @@
   MergeStmts @@ Privileges @@ GrantStmts @@ AlterStmts @@ AlterTableActions @@
   AlterColumnActions @@ RenameActions @@ RenameStmts @@ PrivilegeRestrictions @@
   RowAccessPolicies @@ DropPolicies @@ RestricteeActions @@ PolicyActions @@ AlterPolicyStmts @@
   FunctionStmts @@ ArgumentDefs @@ TableFunctionStmts @@ ArgumentLists @@ DropFunctionStmts @@
   CallStmts @@ ImportStmts @@ ModuleStmts @@ MaterializedViewStmts @@ ProcedureStmts @@
   ExecuteImmediateStmts @@ EntityStmts @@ PivotScans @@ ReturningClauses @@ UnpivotScans @@
   AnalyzeStmts @@ LoadDataStmts

-----------------------------------------------------------------------------
(* Interfaces: the C++ class the name stands for, and the getters a struct   *)
(* needs to have; their setters go with them.                                *)

\* ArgumentNode and ConstraintNode ask for no more than Node does.
RootInterfaces ==
  [Node |-> Interface("BaseNode", {}), ArgumentNode |-> Interface("BaseArgumentNode", {}),
   ExprNode |-> Interface("BaseExprNode", {"Type", "TypeAnnotationMap"})]

ScanInterface == [ScanNode |-> Interface("BaseScanNode", {"ColumnList", "HintList", "IsOrdered"})]

ConstraintInterface == [ConstraintNode |-> Interface("BaseConstraintNode", {})]

StatementInterface == [StatementNode |-> Interface("BaseStatementNode", {"HintList"})]

CreateInterface ==
  [CreateStatementNode |-> Interface("BaseCreateStatementNode",
                             {"HintList", "NamePath", "CreateScope", "CreateMode"})]

AlterInterfaces ==
  [AlterActionNode |-> Interface("BaseAlterActionNode", {}),
   AlterColumnActionNode |-> Interface("BaseAlterColumnActionNode", {"IsIfExists", "Column"})]

ResolvedInterfaces ==
  RootInterfaces @@ ScanInterface @@ ConstraintInterface @@ StatementInterface
    @@ CreateInterface @@ AlterInterfaces

\* A kind of a later C++ library, which newNode does not know yet: one below
\* each interface that C++ code is declared with.
NewerKinds ==
  [NewerExpr |-> "BaseExprNode", NewerScan |-> "BaseScanNode", NewerStmt |-> "BaseStatementNode"]

-----------------------------------------------------------------------------
(* Kinds *)

KindsOfEarlierNodes ==
  [Literal |-> 3, Parameter |-> 4, ExpressionColumn |-> 5, ColumnRef |-> 6, Constant |-> 103,
   SystemVariable |-> 139, InlineLambda |-> 159, FilterFieldArg |-> 173, FilterField |-> 174,
   FunctionCall |-> 8, AggregateFunctionCall |-> 9, AnalyticFunctionCall |-> 10,
   ExtendedCastElement |-> 151, ExtendedCast |-> 158, Cast |-> 11, MakeStruct |-> 12,
   MakeProto |-> 13, MakeProtoField |-> 14, GetStructField |-> 15, GetProtoField |-> 16,
   GetJsonField |-> 165, Flatten |-> 149, FlattenedArg |-> 150, ReplaceFieldItem |-> 128,
   ReplaceField |-> 129, SubqueryExpr |-> 17, LetExpr |-> 197, Model |-> 109, Connection |-> 141,
   Descriptor |-> 144, SingleRowScan |-> 19, TableScan |-> 20, JoinScan |-> 21, ArrayScan |-> 22,
   ColumnHolder |-> 23, FilterScan |-> 24, GroupingSet |-> 93, AggregateScan |-> 25,
   AnonymizedAggregateScan |-> 112, SetOperationItem |-> 94, SetOperationScan |-> 26,
   OrderByScan |-> 27, LimitOffsetScan |-> 28, WithRefScan |-> 29, AnalyticScan |-> 30,
   SampleScan |-> 31, ComputedColumn |-> 32, OrderByItem |-> 33, ColumnAnnotations |-> 104,
   GeneratedColumnInfo |-> 105, ColumnDefaultValue |-> 188, ColumnDefinition |-> 91,
   PrimaryKey |-> 92, ForeignKey |-> 110, CheckConstraint |-> 113, OutputColumn |-> 34,
   ProjectScan |-> 35, TVFScan |-> 81, GroupRowsScan |-> 176, FunctionArgument |-> 82,
   ExplainStmt |-> 37, QueryStmt |-> 38, CreateDatabaseStmt |-> 95, IndexItem |-> 96,
   UnnestItem |-> 126, CreateIndexStmt |-> 97, CreateSchemaStmt |-> 157, CreateTableStmt |-> 90,
   CreateTableAsSelectStmt |-> 40, CreateModelStmt |-> 107, CreateViewStmt |-> 41,
   WithPartitionColumns |-> 153, CreateSnapshotTableStmt |-> 182, CreateExternalTableStmt |-> 42,
   ExportModelStmt |-> 152, ExportDataStmt |-> 43, DefineTableStmt |-> 44, DescribeStmt |-> 45,
   ShowStmt |-> 46, BeginStmt |-> 47, SetTransactionStmt |-> 120, CommitStmt |-> 48,
   RollbackStmt |-> 49, StartBatchStmt |-> 122, RunBatchStmt |-> 123, AbortBatchStmt |-> 124,
   DropStmt |-> 50, DropMaterializedViewStmt |-> 121, DropSnapshotTableStmt |-> 183,
   RecursiveRefScan |-> 147, RecursiveScan |-> 148]

KindsOfLaterNodes ==
  [WithScan |-> 51, WithEntry |-> 52, Option |-> 53, WindowPartitioning |-> 54,
   WindowOrdering |-> 55, WindowFrame |-> 56, AnalyticFunctionGroup |-> 57, WindowFrameExpr |-> 58,
   DMLValue |-> 59, DMLDefault |-> 60, AssertStmt |-> 98, AssertRowsModified |-> 61,
   InsertRow |-> 62, InsertStmt |-> 63, DeleteStmt |-> 64, UpdateItem |-> 65,
   UpdateArrayItem |-> 102, UpdateStmt |-> 66, MergeWhen |-> 100, MergeStmt |-> 101,
   TruncateStmt |-> 133, ObjectUnit |-> 200, Privilege |-> 67, GrantStmt |-> 69, RevokeStmt |-> 70,
   AlterDatabaseStmt |-> 134, AlterMaterializedViewStmt |-> 127, AlterSchemaStmt |-> 160,
   AlterTableStmt |-> 115, AlterViewStmt |-> 118, SetOptionsAction |-> 117,
   AddColumnAction |-> 131, AddConstraintAction |-> 163, DropConstraintAction |-> 164,
   DropPrimaryKeyAction |-> 184, AlterColumnOptionsAction |-> 169,
   AlterColumnDropNotNullAction |-> 178, AlterColumnSetDataTypeAction |-> 181,
   AlterColumnSetDefaultAction |-> 198, AlterColumnDropDefaultAction |-> 199,
   DropColumnAction |-> 132, RenameColumnAction |-> 185, SetAsAction |-> 156,
   SetCollateClause |-> 187, AlterTableSetOptionsStmt |-> 71, RenameStmt |-> 72,
   CreatePrivilegeRestrictionStmt |-> 191, CreateRowAccessPolicyStmt |-> 73,
   DropPrivilegeRestrictionStmt |-> 192, DropRowAccessPolicyStmt |-> 74,
   DropSearchIndexStmt |-> 190, GrantToAction |-> 135, RestrictToAction |-> 193,
   AddToRestricteeListAction |-> 194, RemoveFromRestricteeListAction |-> 195,
   FilterUsingAction |-> 136, RevokeFromAction |-> 137, RenameToAction |-> 138,
   AlterPrivilegeRestrictionStmt |-> 196, AlterRowAccessPolicyStmt |-> 75,
   AlterAllRowAccessPoliciesStmt |-> 145, CreateConstantStmt |-> 99, CreateFunctionStmt |-> 76,
   ArgumentDef |-> 77, ArgumentRef |-> 78, CreateTableFunctionStmt |-> 88,
   RelationArgumentScan |-> 89, ArgumentList |-> 79, FunctionSignatureHolder |-> 84,
   DropFunctionStmt |-> 80, DropTableFunctionStmt |-> 175, CallStmt |-> 83, ImportStmt |-> 86,
   ModuleStmt |-> 87, AggregateHavingModifier |-> 85, CreateMaterializedViewStmt |-> 119,
   CreateProcedureStmt |-> 125, ExecuteImmediateArgument |-> 143, ExecuteImmediateStmt |-> 140,
   AssignmentStmt |-> 142, CreateEntityStmt |-> 154, AlterEntityStmt |-> 155, PivotColumn |-> 166,
   PivotScan |-> 161, ReturningClause |-> 170, UnpivotArg |-> 171, UnpivotScan |-> 172,
   CloneDataStmt |-> 177, TableAndColumnInfo |-> 179, AnalyzeStmt |-> 180, AuxLoadDataStmt |-> 186]

KindNumbers == KindsOfEarlierNodes @@ KindsOfLaterNodes

NewNodeOfScansAndExpressions ==
  [Literal |-> "LiteralNode", Parameter |-> "ParameterNode",
   ExpressionColumn |-> "ExpressionColumnNode", ColumnRef |-> "ColumnRefNode",
   Constant |-> "ConstantNode", SystemVariable |-> "SystemVariableNode",
   InlineLambda |-> "InlineLambdaNode", FilterFieldArg |-> "FilterFieldArgNode",
   FilterField |-> "FilterFieldNode", FunctionCall |-> "FunctionCallNode",
   AggregateFunctionCall |-> "AggregateFunctionCallNode",
   AnalyticFunctionCall |-> "AnalyticFunctionCallNode",
   ExtendedCastElement |-> "ExtendedCastElementNode", ExtendedCast |-> "ExtendedCastNode",
   Cast |-> "CastNode", MakeStruct |-> "MakeStructNode", MakeProto |-> "MakeProtoNode",
   MakeProtoField |-> "MakeProtoFieldNode", GetStructField |-> "GetStructFieldNode",
   GetProtoField |-> "GetProtoFieldNode", GetJsonField |-> "GetJsonFieldNode",
   Flatten |-> "FlattenNode", FlattenedArg |-> "FlattenedArgNode",
   ReplaceFieldItem |-> "ReplaceFieldItemNode", ReplaceField |-> "ReplaceFieldNode",
   SubqueryExpr |-> "SubqueryExprNode", LetExpr |-> "LetExprNode", Model |-> "ModelNode",
   Connection |-> "ConnectionNode", Descriptor |-> "DescriptorNode",
   SingleRowScan |-> "SingleRowScanNode", TableScan |-> "TableScanNode",
   JoinScan |-> "JoinScanNode", ArrayScan |-> "ArrayScanNode", ColumnHolder |-> "ColumnHolderNode",
   FilterScan |-> "FilterScanNode", GroupingSet |-> "GroupingSetNode",
   AggregateScan |-> "AggregateScanNode",
   AnonymizedAggregateScan |-> "AnonymizedAggregateScanNode",
   SetOperationItem |-> "SetOperationItemNode", SetOperationScan |-> "SetOperationScanNode",
   OrderByScan |-> "OrderByScanNode", LimitOffsetScan |-> "LimitOffsetScanNode",
   WithRefScan |-> "WithRefScanNode", AnalyticScan |-> "AnalyticScanNode",
   SampleScan |-> "SampleScanNode", ComputedColumn |-> "ComputedColumnNode",
   OrderByItem |-> "OrderByItemNode", ColumnAnnotations |-> "ColumnAnnotationsNode",
   GeneratedColumnInfo |-> "GeneratedColumnInfoNode",
   ColumnDefaultValue |-> "ColumnDefaultValueNode", ColumnDefinition |-> "ColumnDefinitionNode",
   PrimaryKey |-> "PrimaryKeyNode", ForeignKey |-> "ForeignKeyNode",
   CheckConstraint |-> "CheckConstraintNode", OutputColumn |-> "OutputColumnNode",
   ProjectScan |-> "ProjectScanNode", TVFScan |-> "TVFScanNode",
   GroupRowsScan |-> "GroupRowsScanNode", FunctionArgument |-> "FunctionArgumentNode",
   ExplainStmt |-> "ExplainStmtNode"]

NewNodeOfStatementsAndClauses ==
  [QueryStmt |-> "QueryStmtNode", CreateDatabaseStmt |-> "CreateDatabaseStmtNode",
   IndexItem |-> "IndexItemNode", UnnestItem |-> "UnnestItemNode",
   CreateIndexStmt |-> "CreateIndexStmtNode", CreateSchemaStmt |-> "CreateSchemaStmtNode",
   CreateTableStmt |-> "CreateTableStmtNode",
   CreateTableAsSelectStmt |-> "CreateTableAsSelectStmtNode",
   CreateModelStmt |-> "CreateModelStmtNode", CreateViewStmt |-> "CreateViewStmtNode",
   WithPartitionColumns |-> "WithPartitionColumnsNode",
   CreateSnapshotTableStmt |-> "CreateSnapshotTableStmtNode",
   CreateExternalTableStmt |-> "CreateExternalTableStmtNode",
   ExportModelStmt |-> "ExportModelStmtNode", ExportDataStmt |-> "ExportDataStmtNode",
   DefineTableStmt |-> "DefineTableStmtNode", DescribeStmt |-> "DescribeStmtNode",
   ShowStmt |-> "ShowStmtNode", BeginStmt |-> "BeginStmtNode",
   SetTransactionStmt |-> "SetTransactionStmtNode", CommitStmt |-> "CommitStmtNode",
   RollbackStmt |-> "RollbackStmtNode", StartBatchStmt |-> "StartBatchStmtNode",
   RunBatchStmt |-> "RunBatchStmtNode", AbortBatchStmt |-> "AbortBatchStmtNode",
   DropStmt |-> "DropStmtNode", DropMaterializedViewStmt |-> "DropMaterializedViewStmtNode",
   DropSnapshotTableStmt |-> "DropSnapshotTableStmtNode",
   RecursiveRefScan |-> "RecursiveRefScanNode", RecursiveScan |-> "RecursiveScanNode",
   WithScan |-> "WithScanNode", WithEntry |-> "WithEntryNode", Option |-> "OptionNode",
   WindowPartitioning |-> "WindowPartitioningNode", WindowOrdering |-> "WindowOrderingNode",
   WindowFrame |-> "WindowFrameNode", AnalyticFunctionGroup |-> "AnalyticFunctionGroupNode",
   WindowFrameExpr |-> "WindowFrameExprNode", DMLValue |-> "DMLValueNode",
   DMLDefault |-> "DMLDefaultNode", AssertStmt |-> "AssertStmtNode",
   AssertRowsModified |-> "AssertRowsModifiedNode", InsertRow |-> "InsertRowNode",
   InsertStmt |-> "InsertStmtNode", DeleteStmt |-> "DeleteStmtNode",
   UpdateItem |-> "UpdateItemNode", UpdateArrayItem |-> "UpdateArrayItemNode",
   UpdateStmt |-> "UpdateStmtNode", MergeWhen |-> "MergeWhenNode", MergeStmt |-> "MergeStmtNode",
   TruncateStmt |-> "TruncateStmtNode", ObjectUnit |-> "ObjectUnitNode",
   Privilege |-> "PrivilegeNode", GrantStmt |-> "GrantStmtNode", RevokeStmt |-> "RevokeStmtNode",
   AlterDatabaseStmt |-> "AlterDatabaseStmtNode",
   AlterMaterializedViewStmt |-> "AlterMaterializedViewStmtNode",
   AlterSchemaStmt |-> "AlterSchemaStmtNode", AlterTableStmt |-> "AlterTableStmtNode",
   AlterViewStmt |-> "AlterViewStmtNode", SetOptionsAction |-> "SetOptionsActionNode"]

NewNodeOfLaterStatements ==
  [AddColumnAction |-> "AddColumnActionNode", AddConstraintAction |-> "AddConstraintActionNode",
   DropConstraintAction |-> "DropConstraintActionNode",
   DropPrimaryKeyAction |-> "DropPrimaryKeyActionNode",
   AlterColumnOptionsAction |-> "AlterColumnOptionsActionNode",
   AlterColumnDropNotNullAction |-> "AlterColumnDropNotNullActionNode",
   AlterColumnSetDataTypeAction |-> "AlterColumnSetDataTypeActionNode",
   AlterColumnSetDefaultAction |-> "AlterColumnSetDefaultActionNode",
   AlterColumnDropDefaultAction |-> "AlterColumnDropDefaultActionNode",
   DropColumnAction |-> "DropColumnActionNode", RenameColumnAction |-> "RenameColumnActionNode",
   SetAsAction |-> "SetAsActionNode", SetCollateClause |-> "SetCollateClauseNode",
   AlterTableSetOptionsStmt |-> "AlterTableSetOptionsStmtNode", RenameStmt |-> "RenameStmtNode",
   CreatePrivilegeRestrictionStmt |-> "CreatePrivilegeRestrictionStmtNode",
   CreateRowAccessPolicyStmt |-> "CreateRowAccessPolicyStmtNode",
   DropPrivilegeRestrictionStmt |-> "DropPrivilegeRestrictionStmtNode",
   DropRowAccessPolicyStmt |-> "DropRowAccessPolicyStmtNode",
   DropSearchIndexStmt |-> "DropSearchIndexStmtNode", GrantToAction |-> "GrantToActionNode",
   RestrictToAction |-> "RestrictToActionNode",
   AddToRestricteeListAction |-> "AddToRestricteeListActionNode",
   RemoveFromRestricteeListAction |-> "RemoveFromRestricteeListActionNode",
   FilterUsingAction |-> "FilterUsingActionNode", RevokeFromAction |-> "RevokeFromActionNode",
   RenameToAction |-> "RenameToActionNode",
   AlterPrivilegeRestrictionStmt |-> "AlterPrivilegeRestrictionStmtNode",
   AlterRowAccessPolicyStmt |-> "AlterRowAccessPolicyStmtNode",
   AlterAllRowAccessPoliciesStmt |-> "AlterAllRowAccessPoliciesStmtNode",
   CreateConstantStmt |-> "CreateConstantStmtNode",
   CreateFunctionStmt |-> "CreateFunctionStmtNode", ArgumentDef |-> "ArgumentDefNode",
   ArgumentRef |-> "ArgumentRefNode", CreateTableFunctionStmt |-> "CreateTableFunctionStmtNode",
   RelationArgumentScan |-> "RelationArgumentScanNode", ArgumentList |-> "ArgumentListNode",
   FunctionSignatureHolder |-> "FunctionSignatureHolderNode",
   DropFunctionStmt |-> "DropFunctionStmtNode",
   DropTableFunctionStmt |-> "DropTableFunctionStmtNode", CallStmt |-> "CallStmtNode",
   ImportStmt |-> "ImportStmtNode", ModuleStmt |-> "ModuleStmtNode",
   AggregateHavingModifier |-> "AggregateHavingModifierNode",
   CreateMaterializedViewStmt |-> "CreateMaterializedViewStmtNode",
   CreateProcedureStmt |-> "CreateProcedureStmtNode",
   ExecuteImmediateArgument |-> "ExecuteImmediateArgumentNode",
   ExecuteImmediateStmt |-> "ExecuteImmediateStmtNode", AssignmentStmt |-> "AssignmentStmtNode",
   CreateEntityStmt |-> "CreateEntityStmtNode", AlterEntityStmt |-> "AlterEntityStmtNode",
   PivotColumn |-> "PivotColumnNode", PivotScan |-> "PivotScanNode",
   ReturningClause |-> "ReturningClauseNode", UnpivotArg |-> "UnpivotArgNode",
   UnpivotScan |-> "UnpivotScanNode", CloneDataStmt |-> "CloneDataStmtNode",
   TableAndColumnInfo |-> "TableAndColumnInfoNode", AnalyzeStmt |-> "AnalyzeStmtNode",
   AuxLoadDataStmt |-> "AuxLoadDataStmtNode"]

\* The struct newNode makes for each kind.
NewNodeOf ==
  NewNodeOfScansAndExpressions @@ NewNodeOfStatementsAndClauses @@ NewNodeOfLaterStatements

=============================================================================
